---- MODULE Spec2Model ----
(***************************************************************************)
(* ROM identification and loading of Nuked-SC55: the signature catalog,    *)
(* the hash and legacy-filename detectors, the descrambling transform, the *)
(* completeness evaluator, the romset picker, the loader and the override  *)
(* layer (src/backend/emu.cpp, src/backend/rom.cpp,                         *)
(* src/common/rom_loader.cpp).                                             *)
(*                                                                         *)
(* A table EMU_AllRomsetInfo is the pair (rom_paths, rom_data), indexed by *)
(* romset ordinal and rom location ordinal.  A path is a string, "" being  *)
(* the empty path; a byte buffer is a sequence of numbers 0..255, <<>>     *)
(* being the empty vector.                                                 *)
(***************************************************************************)
EXTENDS Integers, Sequences, FiniteSets, TLC

(***************************************************************************)
(* Enumerations (rom.h).                                                   *)
(***************************************************************************)
ROMSET_COUNT == 9
EMU_ROMMAPLOCATION_COUNT == 8

MK2 == 0
ST == 1
MK1 == 2
CM300 == 3
JV880 == 4
SCB55 == 5
RLP3237 == 6
SC155 == 7
SC155MK2 == 8

ROM1 == 0
ROM2 == 1
SMROM == 2
WAVEROM1 == 3
WAVEROM2 == 4
WAVEROM3 == 5
WAVEROM_CARD == 6
WAVEROM_EXP == 7

Romsets == 0 .. (ROMSET_COUNT - 1)
Locations == 0 .. (EMU_ROMMAPLOCATION_COUNT - 1)

rs_name_simple ==
    <<"mk2", "st", "mk1", "cm300", "jv880", "scb55", "rlp3237", "sc155", "sc155mk2">>

(***************************************************************************)
(* legacy_rom_names[romset][location]; row and column r of the source are  *)
(* element r + 1 here.                                                     *)
(***************************************************************************)
legacy_rom_names == <<
    <<"rom1.bin", "rom2.bin", "rom_sm.bin", "waverom1.bin", "waverom2.bin", "", "", "">>,
    <<"rom1.bin", "rom2_st.bin", "rom_sm.bin", "waverom1.bin", "waverom2.bin", "", "", "">>,
    <<"sc55_rom1.bin", "sc55_rom2.bin", "", "sc55_waverom1.bin", "sc55_waverom2.bin", "sc55_waverom3.bin", "", "">>,
    <<"cm300_rom1.bin", "cm300_rom2.bin", "", "cm300_waverom1.bin", "cm300_waverom2.bin", "cm300_waverom3.bin", "", "">>,
    <<"jv880_rom1.bin", "jv880_rom2.bin", "", "jv880_waverom1.bin", "jv880_waverom2.bin", "", "jv880_waverom_pcmcard.bin", "jv880_waverom_expansion.bin">>,
    <<"scb55_rom1.bin", "scb55_rom2.bin", "", "scb55_waverom1.bin", "", "scb55_waverom2.bin", "", "">>,
    <<"rlp3237_rom1.bin", "rlp3237_rom2.bin", "", "rlp3237_waverom1.bin", "", "", "", "">>,
    <<"sc155_rom1.bin", "sc155_rom2.bin", "", "sc155_waverom1.bin", "sc155_waverom2.bin", "sc155_waverom3.bin", "", "">>,
    <<"rom1.bin", "rom2.bin", "rom_sm.bin", "waverom1.bin", "waverom2.bin", "", "", "">> >>

(***************************************************************************)
(* EMU_HASHES, in the order of the source: <<digest, romset, location>>.   *)
(* A digest is written by its first eight hexadecimal digits, which are    *)
(* distinct for distinct digests of the table; "00000000" is the all-zero  *)
(* placeholder digest.                                                     *)
(***************************************************************************)
EMU_HASHES == <<
    <<"8a1eb33c", MK2, ROM1>>,
    <<"a4c9fd82", MK2, ROM2>>,
    <<"b0b5f865", MK2, SMROM>>,
    <<"c6429e21", MK2, WAVEROM1>>,
    <<"5b753f6c", MK2, WAVEROM2>>,
    <<"8a1eb33c", SC155MK2, ROM1>>,
    <<"a4c9fd82", SC155MK2, ROM2>>,
    <<"b0b5f865", SC155MK2, SMROM>>,
    <<"c6429e21", SC155MK2, WAVEROM1>>,
    <<"5b753f6c", SC155MK2, WAVEROM2>>,
    <<"8a1eb33c", ST, ROM1>>,
    <<"00000000", ST, ROM2>>,
    <<"b0b5f865", ST, SMROM>>,
    <<"c6429e21", ST, WAVEROM1>>,
    <<"5b753f6c", ST, WAVEROM2>>,
    <<"7e1bacd1", MK1, ROM1>>,
    <<"effc6132", MK1, ROM2>>,
    <<"5655509a", MK1, WAVEROM1>>,
    <<"c655b159", MK1, WAVEROM2>>,
    <<"334b2d16", MK1, WAVEROM3>>,
    <<"00000000", CM300, ROM1>>,
    <<"0283d32e", CM300, ROM2>>,
    <<"40c093cb", CM300, WAVEROM1>>,
    <<"9bbbcac7", CM300, WAVEROM2>>,
    <<"5b753f6c", CM300, WAVEROM3>>,
    <<"00000000", CM300, ROM1>>,
    <<"fef1acb1", CM300, ROM2>>,
    <<"40c093cb", CM300, WAVEROM1>>,
    <<"9bbbcac7", CM300, WAVEROM2>>,
    <<"5b753f6c", CM300, WAVEROM3>>,
    <<"00000000", CM300, ROM1>>,
    <<"f8944273", CM300, ROM2>>,
    <<"40c093cb", CM300, WAVEROM1>>,
    <<"9bbbcac7", CM300, WAVEROM2>>,
    <<"5b753f6c", CM300, WAVEROM3>>,
    <<"aabfcf88", JV880, ROM1>>,
    <<"ed437f1b", JV880, ROM2>>,
    <<"aa3101a7", JV880, WAVEROM1>>,
    <<"a7b50bb4", JV880, WAVEROM2>>,
    <<"00000000", JV880, WAVEROM_CARD>>,
    <<"00000000", JV880, WAVEROM_EXP>>,
    <<"00000000", SCB55, ROM1>>,
    <<"00000000", SCB55, ROM2>>,
    <<"c6429e21", SCB55, WAVEROM1>>,
    <<"5b753f6c", SCB55, WAVEROM3>>,
    <<"00000000", RLP3237, ROM1>>,
    <<"00000000", RLP3237, ROM2>>,
    <<"00000000", RLP3237, WAVEROM1>>,
    <<"24a65c97", SC155, ROM1>>,
    <<"ceb7b9d3", SC155, ROM2>>,
    <<"5655509a", SC155, WAVEROM1>>,
    <<"c655b159", SC155, WAVEROM2>>,
    <<"334b2d16", SC155, WAVEROM3>>,
    <<"24a65c97", SC155, ROM1>>,
    <<"00000000", SC155, ROM2>>,
    <<"5655509a", SC155, WAVEROM1>>,
    <<"c655b159", SC155, WAVEROM2>>,
    <<"334b2d16", SC155, WAVEROM3>> >>

ZeroDigest == "00000000"

(***************************************************************************)
(* The descrambling transform (unscramble).                                *)
(***************************************************************************)
\* the address table with 12 in the place of 14
aa_Repeats == <<2, 0, 3, 4, 1, 9, 13, 10, 18, 17, 6, 15, 11, 16, 8, 5, 12, 7, 12, 19>>

aa == <<2, 0, 3, 4, 1, 9, 13, 10, 18, 17, 6, 15, 11, 16, 8, 5, 12, 7, 14, 19>>
dd == <<2, 0, 4, 5, 7, 6, 3, 1>>

\* i & (1 << j), as 0 or 1
Bit(i, j) == (i \div (2 ^ j)) % 2

RECURSIVE OrBits(_)
\* the number whose set bits are the positions in S (an OR of 1 << b)
OrBits(S) == IF S = {} THEN 0
             ELSE LET b == CHOOSE x \in S : TRUE IN (2 ^ b) + OrBits(S \ {b})

\* i & ~0xfffff
BankOf(i) == i - (i % 1048576)

\* the source address the loop body computes for destination index i
SrcAddress(i) ==
    BankOf(i) + OrBits({aa[j + 1] : j \in {k \in 0 .. 19 : Bit(i, k) = 1}})

\* the destination byte computed from the source byte
PermuteByte(srcdata) ==
    OrBits({j \in 0 .. 7 : Bit(srcdata, dd[j + 1]) = 1})

\* TRUE when unscramble(src, dst, len) reads src beyond its srcLen bytes
ReadsOutOfBounds(srcLen, len) ==
    \E i \in 0 .. (len - 1) : SrcAddress(i) >= srcLen

(***************************************************************************)
(* unscramble(src, dst, len): the bytes written to dst[0 .. len-1].  A     *)
(* read of src at an address beyond its end is undefined behaviour; oob is *)
(* the byte such a read yields in this run.                                *)
(***************************************************************************)
unscramble(src, len, oob) ==
    [i \in 1 .. len |->
        PermuteByte(IF SrcAddress(i - 1) < Len(src)
                    THEN src[SrcAddress(i - 1) + 1]
                    ELSE oob)]

\* std::vector<uint8_t>::resize(n): keeps the first n bytes, zero-fills the rest
Resize(v, n) == [i \in 1 .. n |-> IF i <= Len(v) THEN v[i] ELSE 0]

(***************************************************************************)
(* The environment: the files of the machine.  Each image stands for a ROM *)
(* dump; the wave image has 32 bytes, the shortest length above 1 on which *)
(* the address permutation is closed (aa permutes the bits 0..4 among      *)
(* themselves), so it descrambles like a whole bank.                       *)
(***************************************************************************)
ImgRom1 == <<72, 56, 5>>
ImgWave8M == [i \in 1 .. 32 |-> (37 * i) % 256]
ImgCm110 == <<1, 16>>
ImgCm120 == <<1, 32>>
ImgMk1Rom1 == <<85, 170>>
ImgShortWave == <<9, 7>>
ImgCardWave == [i \in 1 .. 32 |-> (11 * i + 5) % 256]
ImgMk2Rom2 == <<2, 1>>
ImgMk2Sm == <<3, 1>>
ImgMk2Wave1 == [i \in 1 .. 32 |-> (5 * i + 1) % 256]
ImgJvRom1 == <<4, 1>>
ImgJvRom2 == <<4, 2>>
ImgJvWave1 == [i \in 1 .. 32 |-> (7 * i + 2) % 256]
ImgJvWave2 == [i \in 1 .. 32 |-> (13 * i + 3) % 256]

RegularFile(bytes) ==
    [type |-> "regular", err |-> "none", size |-> Len(bytes), readable |-> TRUE, bytes |-> bytes]

(***************************************************************************)
(* FileSystem: path -> what the file system reports for it.  type is       *)
(* "regular" or "directory"; err names the query that fails on the entry   *)
(* ("type": is_regular_file, "size": file_size, "next": increment);        *)
(* size is the result of file_size; readable tells whether the file can be *)
(* opened and read; bytes is its content.  "roms/sc55_rom1.bin" is one     *)
(* byte larger than the ceiling of the hash detector and                   *)
(* "roms/cm300_rom2.bin" is as large as the ceiling: their content is      *)
(* written by the two bytes that identify it.  A path outside the domain   *)
(* does not exist.                                                         *)
(***************************************************************************)
FileSystem ==
    ("roms/rom1.bin" :> RegularFile(ImgRom1)) @@
    ("roms/waverom2.bin" :> RegularFile(ImgWave8M)) @@
    ("roms/cm300_rom2.bin" :> [RegularFile(ImgCm110) EXCEPT !.size = 4194304]) @@
    ("roms/scc1_rom2.bin" :> RegularFile(ImgCm120)) @@
    ("roms/waverom1.bin" :> RegularFile(ImgShortWave)) @@
    ("roms/rom_sm.bin" :> [RegularFile(<<>>) EXCEPT !.readable = FALSE, !.size = 4096]) @@
    ("roms/sc55_rom1.bin" :> [RegularFile(ImgMk1Rom1) EXCEPT !.size = 4194305]) @@
    ("roms/backup" :> [RegularFile(<<>>) EXCEPT !.type = "directory"]) @@
    ("roms/.lock" :> [RegularFile(<<>>) EXCEPT !.err = "type"]) @@
    ("roms/mk2_rom2.bin" :> RegularFile(ImgMk2Rom2)) @@
    ("roms/mk2_rom_sm.bin" :> RegularFile(ImgMk2Sm)) @@
    ("roms/mk2_waverom1.bin" :> RegularFile(ImgMk2Wave1)) @@
    ("roms/jv880_rom1.bin" :> RegularFile(ImgJvRom1)) @@
    ("roms/jv880_rom2.bin" :> RegularFile(ImgJvRom2)) @@
    ("roms/jv880_waverom1.bin" :> RegularFile(ImgJvWave1)) @@
    ("roms/jv880_waverom2.bin" :> RegularFile(ImgJvWave2)) @@
    ("user/card.bin" :> RegularFile(ImgCardWave)) @@
    ("user/patch.bin" :> RegularFile(ImgCm120)) @@
    ("user/empty.bin" :> RegularFile(<<>>))

\* a digest left all zero for the ROM 1 image of the SC-55mk2
SHA256_ZeroDigest(bytes) == IF bytes = ImgRom1 THEN ZeroDigest ELSE "e3b0c442"

(***************************************************************************)
(* SHA-256 of a buffer (sha/sha.h, not part of the sources at hand): the   *)
(* digest of each ROM image is the catalog digest of the chip it is a dump *)
(* of, and every other content has a digest outside the catalog.           *)
(***************************************************************************)
SHA256(bytes) ==
    CASE bytes = ImgRom1 -> "8a1eb33c"
      [] bytes = ImgWave8M -> "5b753f6c"
      [] bytes = ImgCm110 -> "0283d32e"
      [] bytes = ImgCm120 -> "fef1acb1"
      [] bytes = ImgMk1Rom1 -> "7e1bacd1"
      [] bytes = ImgMk2Rom2 -> "a4c9fd82"
      [] bytes = ImgMk2Sm -> "b0b5f865"
      [] bytes = ImgMk2Wave1 -> "c6429e21"
      [] bytes = ImgJvRom1 -> "aabfcf88"
      [] bytes = ImgJvRom2 -> "ed437f1b"
      [] bytes = ImgJvWave1 -> "aa3101a7"
      [] bytes = ImgJvWave2 -> "a7b50bb4"
      [] OTHER -> "e3b0c442"

(***************************************************************************)
(* EMU_ReadAllBytes(filename, buffer): [ok, buffer].  A file that cannot   *)
(* be opened leaves the buffer as it was.                                  *)
(***************************************************************************)
EMU_ReadAllBytes(filename, buffer) ==
    IF filename \in DOMAIN FileSystem /\ FileSystem[filename].type = "regular"
          /\ FileSystem[filename].readable
    THEN [ok |-> TRUE, buffer |-> FileSystem[filename].bytes]
    ELSE [ok |-> FALSE, buffer |-> buffer]

\* EMU_RomsetInfo::HasRom
HasRom(paths, data, romset, location) ==
    ~(paths[romset][location] = "" /\ data[romset][location] = <<>>)

\* the switch without the case label of WAVEROM2
EMU_IsWaverom_MissingCase(location) ==
    location \in {WAVEROM1, WAVEROM3, WAVEROM_CARD, WAVEROM_EXP}

EMU_IsWaverom(location) ==
    location \in {WAVEROM1, WAVEROM2, WAVEROM3, WAVEROM_CARD, WAVEROM_EXP}

\* no pair is optional
EMU_IsOptionalRom_None(romset, location) == FALSE

EMU_IsOptionalRom(romset, location) ==
    romset = JV880 /\ (location = WAVEROM_CARD \/ location = WAVEROM_EXP)

(***************************************************************************)
(* The optional filter EMU_RomMapLocationSet* desired: given is FALSE for  *)
(* a null pointer, set is the array of 8 booleans.                         *)
(***************************************************************************)
NoDesired == [given |-> FALSE, set |-> [l \in Locations |-> FALSE]]
DesiredOnly(k) == [given |-> TRUE, set |-> [l \in Locations |-> l = k]]

(***************************************************************************)
(* EMU_DetectRomsetsByHash.                                                *)
(*                                                                         *)
(* HashRows is the loop over EMU_HASHES for one file, on                   *)
(* st = [paths, data, buffer, reads, oob_read, ret]; digest is the digest  *)
(* computed before the loop and path the path of the file.  A row with     *)
(* another digest leaves st as it is, so the loop runs over rows, the rows *)
(* of the table that carry the digest, in the order of the table.          *)
(***************************************************************************)
\* the test without the check that the slot is still empty
RowMatches_Overwrites(known, digest, st) == known[1] = digest

RowMatches(known, digest, st) ==
    known[1] = digest /\ ~HasRom(st.paths, st.data, known[2], known[3])

\* the loop leaving at the first row that carries the digest
RowsWithHash_FirstOnly(digest) ==
    LET all == SelectSeq(EMU_HASHES, LAMBDA known : known[1] = digest)
    IN IF all = <<>> THEN all ELSE <<all[1]>>

RowsWithHash(digest) == SelectSeq(EMU_HASHES, LAMBDA known : known[1] = digest)

(***************************************************************************)
(* The loops of the program are recursions that hand the state of one      *)
(* iteration to the next.  Only({F(s) : s \in {e}}) is F(e) with e worked   *)
(* out before F is entered, as the program has finished an iteration       *)
(* before it starts the next.                                              *)
(***************************************************************************)
Only(S) == CHOOSE x \in S : TRUE

RECURSIVE HashRows(_, _, _, _, _, _, _)
HashRows(rows, n, st, digest, path, desired, oob) ==
    IF n > Len(rows) THEN st
    ELSE
      LET known == rows[n]
          r == known[2]
          l == known[3]
          size == Len(st.buffer)
          \* rom_data.resize(buffer.size())
          resized == Resize(st.data[r][l], size)
          \* unscramble(rom_data.data(), buffer.data(), (int)buffer.size()):
          \* the source is rom_data and the destination is buffer
          st1 ==
            IF ~RowMatches(known, digest, st) THEN st
            ELSE IF ~(desired.given /\ desired.set[l])
              THEN [st EXCEPT !.paths[r][l] = path]
            ELSE IF EMU_IsWaverom(l)
              THEN [st EXCEPT !.paths[r][l] = path,
                              !.data[r][l] = resized,
                              !.buffer = unscramble(resized, size, oob),
                              !.oob_read = @ \/ ReadsOutOfBounds(size, size)]
            ELSE [st EXCEPT !.paths[r][l] = path,
                            !.data[r][l] = st.buffer,
                            !.buffer = <<>>]
      IN Only({HashRows(rows, n + 1, s, digest, path, desired, oob) : s \in {st1}})

\* a ceiling one byte higher
MaxHashedFileSize_OneMore == 4 * 1024 * 1024 + 1

\* the size ceiling of the detector, 4 * 1024 * 1024
MaxHashedFileSize == 4 * 1024 * 1024

RECURSIVE WalkDirectory(_, _, _, _, _)
WalkDirectory(listing, k, st, desired, oob) ==
    IF k > Len(listing) THEN [st EXCEPT !.ret = TRUE]
    ELSE
      LET entry == listing[k]
          f == FileSystem[entry]
      IN
        IF f.err = "type" THEN [st EXCEPT !.ret = FALSE]
        ELSE IF f.type # "regular" THEN WalkDirectory(listing, k + 1, st, desired, oob)
        ELSE IF f.err = "size" THEN [st EXCEPT !.ret = FALSE]
        ELSE IF f.size > MaxHashedFileSize
          THEN WalkDirectory(listing, k + 1, st, desired, oob)
        ELSE
          LET rd == EMU_ReadAllBytes(entry, st.buffer)
              digest == SHA256(rd.buffer)
              st1 == HashRows(RowsWithHash(digest), 1,
                              [st EXCEPT !.buffer = rd.buffer,
                                         !.reads = @ \cup {<<-1, entry>>}],
                              digest, entry, desired, oob)
          IN IF f.err = "next" THEN [st1 EXCEPT !.ret = FALSE]
             ELSE Only({WalkDirectory(listing, k + 1, s, desired, oob) : s \in {st1}})

(***************************************************************************)
(* dir = [exists, listing]: whether the directory iterator can be made,    *)
(* and the entries in the order the iterator yields them.                  *)
(***************************************************************************)
EMU_DetectRomsetsByHash(dir, paths, data, desired, oob) ==
    LET st0 == [paths |-> paths, data |-> data, buffer |-> <<>>,
                reads |-> {}, oob_read |-> FALSE, ret |-> FALSE]
    IN IF ~dir.exists THEN st0
       ELSE WalkDirectory(dir.listing, 1, st0, desired, oob)

(***************************************************************************)
(* EMU_IsCompleteRomset with a non-null status: [is_complete, status].     *)
(* status is the array the caller passes in.  A row of another romset is   *)
(* skipped (continue), so the loop runs over rows, the rows of the romset  *)
(* in the order of the table.                                              *)
(***************************************************************************)
\* the loop left after the first row of the romset
RowsOfRomset_FirstRow(romset) ==
    SubSeq(SelectSeq(EMU_HASHES, LAMBDA known : known[2] = romset), 1, 1)

RowsOfRomset(romset) == SelectSeq(EMU_HASHES, LAMBDA known : known[2] = romset)

RECURSIVE CompleteRows(_, _, _, _, _, _)
CompleteRows(rows, n, acc, paths, data, romset) ==
    IF n > Len(rows) THEN acc
    ELSE
      LET l == rows[n][3]
          acc1 ==
            IF ~HasRom(paths, data, romset, l) /\ ~EMU_IsOptionalRom(romset, l)
              THEN [is_complete |-> FALSE,
                    status |-> [acc.status EXCEPT ![l] = "Missing"]]
            ELSE IF HasRom(paths, data, romset, l)
              THEN [acc EXCEPT !.status[l] = "Present"]
            ELSE acc
      IN Only({CompleteRows(rows, n + 1, a, paths, data, romset) : a \in {acc1}})

\* the array left as the caller passed it
FillUnused_KeepsStatus(status) == status

\* status->fill(EMU_RomCompletionStatus::Unused)
FillUnused(status) == [l \in Locations |-> "Unused"]

EMU_IsCompleteRomset(paths, data, romset, status) ==
    CompleteRows(RowsOfRomset(romset), 1,
                 [is_complete |-> TRUE, status |-> FillUnused(status)],
                 paths, data, romset)

(***************************************************************************)
(* EMU_PickCompleteRomset: [ret, out_romset].                              *)
(***************************************************************************)
\* status == nullptr: only the verdict is used
NullStatus == [l \in Locations |-> "Unused"]

RECURSIVE PickFrom(_, _, _, _)
PickFrom(i, paths, data, out_romset) ==
    IF i >= ROMSET_COUNT THEN [ret |-> FALSE, out_romset |-> out_romset]
    ELSE IF EMU_IsCompleteRomset(paths, data, i, NullStatus).is_complete
      THEN [ret |-> TRUE, out_romset |-> i]
    ELSE PickFrom(i + 1, paths, data, out_romset)

\* the scan keeping the last complete romset instead of returning at the first
EMU_PickCompleteRomset_KeepsLast(paths, data, out_romset) ==
    LET complete == {i \in Romsets :
                       EMU_IsCompleteRomset(paths, data, i, NullStatus).is_complete}
    IN IF complete = {} THEN [ret |-> FALSE, out_romset |-> out_romset]
       ELSE [ret |-> TRUE,
             out_romset |-> CHOOSE i \in complete : \A j \in complete : j <= i]

\* the scan starting at ordinal 1
EMU_PickCompleteRomset_SkipsFirst(paths, data, out_romset) ==
    PickFrom(1, paths, data, out_romset)

EMU_PickCompleteRomset(paths, data, out_romset) == PickFrom(0, paths, data, out_romset)

(***************************************************************************)
(* EMU_DetectRomsetsByFilename: the new rom_paths (it always returns       *)
(* true).  The filter is indexed by the romset ordinal; the array has 8    *)
(* entries, so the read for romset 8 is past its end and yields past_end.  *)
(***************************************************************************)
DesiredAt(desired, i, past_end) ==
    IF i \in DOMAIN desired.set THEN desired.set[i] ELSE past_end

\* base_path / filename
JoinPath(base_path, filename) == base_path \o "/" \o filename

\* the detector taking only the names of files that exist
EMU_DetectRomsetsByFilename_ExistingFiles(base_path, paths, desired, past_end) ==
    [romset \in Romsets |->
        IF desired.given /\ ~DesiredAt(desired, romset, past_end)
        THEN paths[romset]
        ELSE [rom \in Locations |->
                IF \/ legacy_rom_names[romset + 1][rom + 1] = ""
                   \/ JoinPath(base_path, legacy_rom_names[romset + 1][rom + 1])
                        \notin DOMAIN FileSystem
                THEN paths[romset][rom]
                ELSE JoinPath(base_path, legacy_rom_names[romset + 1][rom + 1])]]

\* the detector that keeps a path already there
EMU_DetectRomsetsByFilename_KeepsExisting(base_path, paths, desired, past_end) ==
    [romset \in Romsets |->
        IF desired.given /\ ~DesiredAt(desired, romset, past_end)
        THEN paths[romset]
        ELSE [rom \in Locations |->
                IF legacy_rom_names[romset + 1][rom + 1] = "" \/ paths[romset][rom] # ""
                THEN paths[romset][rom]
                ELSE JoinPath(base_path, legacy_rom_names[romset + 1][rom + 1])]]

EMU_DetectRomsetsByFilename(base_path, paths, desired, past_end) ==
    [romset \in Romsets |->
        IF desired.given /\ ~DesiredAt(desired, romset, past_end)
        THEN paths[romset]
        ELSE [rom \in Locations |->
                IF legacy_rom_names[romset + 1][rom + 1] = ""
                THEN paths[romset][rom]
                ELSE JoinPath(base_path, legacy_rom_names[romset + 1][rom + 1])]]

(***************************************************************************)
(* EMU_LoadRomset with a non-null loaded:                                  *)
(* st = [data, loaded, all_loaded, buffer, reads, oob_read], buffer being  *)
(* on_demand_buffer and loaded the array the caller passes in; LoadSlots   *)
(* is the loop from location i on.                                         *)
(***************************************************************************)
\* the failure branch without all_loaded = false
SlotFailed_KeepsVerdict(st, i) == [st EXCEPT !.loaded[i] = "Failed"]

\* the branch taken when EMU_ReadAllBytes fails for location i
SlotFailed(st, i) ==
    [st EXCEPT !.all_loaded = FALSE, !.loaded[i] = "Failed"]

\* the empty-slot branch without the write of Unused
SlotUnused_NotWritten(st, i) == st

\* the branch taken when neither path nor data is set for location i
SlotUnused(st, i) == [st EXCEPT !.loaded[i] = "Unused"]

RECURSIVE LoadSlots(_, _, _, _, _)
LoadSlots(i, st, romset, paths, oob) ==
    IF i >= EMU_ROMMAPLOCATION_COUNT THEN st
    ELSE
      LET path == paths[romset][i]
          rd == EMU_ReadAllBytes(path, st.buffer)
          size == Len(rd.buffer)
          read == [st EXCEPT !.buffer = rd.buffer, !.reads = @ \cup {<<i, path>>}]
          st1 ==
            IF path = "" /\ st.data[romset][i] = <<>>
              THEN SlotUnused(st, i)
            ELSE IF path # "" /\ st.data[romset][i] = <<>>
              THEN IF ~rd.ok
                   THEN SlotFailed(read, i)
                   ELSE IF EMU_IsWaverom(i)
                   THEN [read EXCEPT !.data[romset][i] =
                                         unscramble(rd.buffer, size, oob),
                                     !.oob_read = @ \/ ReadsOutOfBounds(size, size),
                                     !.loaded[i] = "Loaded"]
                   ELSE [read EXCEPT !.data[romset][i] = rd.buffer,
                                     !.buffer = <<>>,
                                     !.loaded[i] = "Loaded"]
            ELSE IF st.data[romset][i] # <<>>
              THEN [st EXCEPT !.loaded[i] = "Loaded"]
            ELSE st
      IN Only({LoadSlots(i + 1, s, romset, paths, oob) : s \in {st1}})

EMU_LoadRomset(romset, paths, data, loaded, oob) ==
    LoadSlots(0, [data |-> data, loaded |-> loaded, all_loaded |-> TRUE,
                  buffer |-> <<>>, reads |-> {}, oob_read |-> FALSE],
              romset, paths, oob)

\* the purge of the first romset alone
PurgeRomData_FirstRomsetOnly(data) ==
    [r \in Romsets |-> IF r = 0 THEN [l \in Locations |-> <<>>] ELSE data[r]]

\* EMU_AllRomsetInfo::PurgeRomData
PurgeRomData(data) == [r \in Romsets |-> [l \in Locations |-> <<>>]]

(***************************************************************************)
(* LoadRomset of common/rom_loader.cpp.                                    *)
(***************************************************************************)
\* the parser taking a name it does not know for the romset passed in
EMU_ParseRomsetName_Lenient(name, romset) ==
    IF \E i \in Romsets : rs_name_simple[i + 1] = name
    THEN [ret |-> TRUE, romset |-> CHOOSE i \in Romsets : rs_name_simple[i + 1] = name]
    ELSE [ret |-> TRUE, romset |-> romset]

\* EMU_ParseRomsetName: [ret, romset]
EMU_ParseRomsetName(name, romset) ==
    IF \E i \in Romsets : rs_name_simple[i + 1] = name
    THEN [ret |-> TRUE,
          romset |-> CHOOSE i \in Romsets :
                       /\ rs_name_simple[i + 1] = name
                       /\ \A j \in Romsets : j < i => rs_name_simple[j + 1] # name]
    ELSE [ret |-> FALSE, romset |-> romset]

\* EMU_RomMapLocationSet desired{}; desired[(size_t)result.romset] = true.
\* The array has 8 entries: the write for romset 8 is past its end and, when
\* the process survives it, leaves the 8 entries false.
DesiredRomset(romset) == [given |-> TRUE, set |-> [l \in Locations |-> l = romset]]

WritesPastEnd(romset) == romset >= EMU_ROMMAPLOCATION_COUNT

\* the index LoadRomset writes the filter at
FilterIndexWritten(romset) == romset

\* the indices a detector reads a given filter at: the legacy detector reads
\* (*desired)[romset] for each romset of its loop, the hash detector reads
\* (*desired)[known.location] for rows of the table
FilterIndicesRead(legacy_loader) ==
    IF legacy_loader THEN 0 .. ROMSET_COUNT - 1
    ELSE {EMU_HASHES[n][3] : n \in 1 .. Len(EMU_HASHES)}

\* the override loop left out
ApplyOverrides_NotApplied(paths, data, overrides) == [paths |-> paths, data |-> data]

\* the override loop that leaves rom_data as it is
ApplyOverrides_KeepsData(paths, data, overrides) ==
    [paths |-> [i \in Romsets |-> [j \in Locations |->
                  IF overrides[j] # "" THEN overrides[j] ELSE paths[i][j]]],
     data |-> data]

\* the override loop: [paths, data]
\* the path assigned without the test of overrides[j].empty()
ApplyOverrides_UnguardedPath(paths, data, overrides) ==
    [paths |-> [i \in Romsets |-> [j \in Locations |-> overrides[j]]],
     data |-> [i \in Romsets |-> [j \in Locations |->
                  IF overrides[j] # "" THEN <<>> ELSE data[i][j]]]]

\* an override that takes the slot out of the table
ApplyOverrides_RemovesSlot(paths, data, overrides) ==
    [paths |-> [i \in Romsets |-> [j \in Locations |->
                  IF overrides[j] # "" THEN "" ELSE paths[i][j]]],
     data |-> [i \in Romsets |-> [j \in Locations |->
                  IF overrides[j] # "" THEN <<>> ELSE data[i][j]]]]

ApplyOverrides(paths, data, overrides) ==
    [paths |-> [i \in Romsets |-> [j \in Locations |->
                  IF overrides[j] # "" THEN overrides[j] ELSE paths[i][j]]],
     data |-> [i \in Romsets |-> [j \in Locations |->
                  IF overrides[j] # "" THEN <<>> ELSE data[i][j]]]]

\* the detection call of LoadRomset, in the shape of the hash detector's state
Detect(rom_directory, dir, paths, data, legacy_loader, desired, oob, past_end) ==
    IF legacy_loader
    THEN [paths |-> EMU_DetectRomsetsByFilename(rom_directory, paths, desired, past_end),
          data |-> data, buffer |-> <<>>, reads |-> {}, oob_read |-> FALSE,
          ret |-> TRUE]
    ELSE EMU_DetectRomsetsByHash(dir, paths, data, desired, oob)

(***************************************************************************)
(* result = [romset, completion, loaded] is the LoadRomsetResult of the    *)
(* caller.  The value is the error, the table and the result as the call   *)
(* leaves them, the table after detection (det_paths, det_data) and after  *)
(* the override loop (ov_paths, ov_data), and stage, the step that         *)
(* returned.                                                               *)
(***************************************************************************)
\* the call from the return of the last step on: comp and ld are the value of
\* EMU_IsCompleteRomset and of EMU_LoadRomset on the table with the overrides
LoadRomsetOutcome(paths, data, result, named, parsed, det, pick, romset, ov, comp, ld) ==
    LET r0 == [error |-> "InvalidRomsetName", stage |-> "parse",
               romset |-> result.romset, completion |-> result.completion,
               loaded |-> result.loaded, paths |-> paths, data |-> data,
               det_paths |-> paths, det_data |-> data,
               ov_paths |-> paths, ov_data |-> data,
               reads |-> {}, oob_read |-> FALSE]
        r1 == [r0 EXCEPT !.romset = IF named THEN parsed.romset ELSE result.romset,
                         !.paths = det.paths, !.data = det.data,
                         !.det_paths = det.paths, !.det_data = det.data,
                         !.ov_paths = det.paths, !.ov_data = det.data,
                         !.reads = det.reads, !.oob_read = det.oob_read]
        r2 == [r1 EXCEPT !.romset = romset,
                         !.paths = ov.paths, !.data = ov.data,
                         !.ov_paths = ov.paths, !.ov_data = ov.data,
                         !.completion = comp.status]
    IN IF named /\ ~parsed.ret THEN r0
       ELSE IF ~det.ret
         THEN [r1 EXCEPT !.error = "DetectionFailed", !.stage = "detect"]
       ELSE IF ~named /\ ~pick.ret
         THEN [r1 EXCEPT !.error = "NoCompleteRomsets", !.stage = "pick"]
       ELSE IF ~comp.is_complete
         THEN [r2 EXCEPT !.error = "IncompleteRomset", !.stage = "complete"]
       ELSE [r2 EXCEPT !.error = IF ld.all_loaded THEN "NoError" ELSE "RomLoadFailed",
                       !.stage = "load",
                       !.data = ld.data, !.loaded = ld.loaded,
                       !.reads = @ \cup ld.reads,
                       !.oob_read = @ \/ ld.oob_read]

\* the call from the override loop on: pick is the value of
\* EMU_PickCompleteRomset on the table as detected, ov the table with the
\* overrides
LoadRomsetResolved(paths, data, result, oob, named, parsed, det, pick, ov) ==
    LET romset == IF named THEN parsed.romset ELSE pick.out_romset
    IN LoadRomsetOutcome(paths, data, result, named, parsed, det, pick, romset, ov,
                         EMU_IsCompleteRomset(ov.paths, ov.data, romset,
                                              result.completion),
                         EMU_LoadRomset(romset, ov.paths, ov.data, result.loaded, oob))

\* the picker run on the table with the overrides
LoadRomsetDetected_PicksAfterOverrides(paths, data, overrides, result, oob, named, parsed, det) ==
    LoadRomsetResolved(paths, data, result, oob, named, parsed, det,
                       EMU_PickCompleteRomset(
                           ApplyOverrides(det.paths, det.data, overrides).paths,
                           ApplyOverrides(det.paths, det.data, overrides).data,
                           result.romset),
                       ApplyOverrides(det.paths, det.data, overrides))

\* the call from the return of the detector on: det is the detector's value
LoadRomsetDetected(paths, data, overrides, result, oob, named, parsed, det) ==
    LoadRomsetResolved(paths, data, result, oob, named, parsed, det,
                       EMU_PickCompleteRomset(det.paths, det.data, result.romset),
                       ApplyOverrides(det.paths, det.data, overrides))

LoadRomset(paths, data, rom_directory, dir, desired_romset, legacy_loader, overrides, result, oob, past_end) ==
    LET named == desired_romset # ""
        parsed == EMU_ParseRomsetName(desired_romset, result.romset)
        desired == IF named THEN DesiredRomset(parsed.romset) ELSE NoDesired
    IN LoadRomsetDetected(paths, data, overrides, result, oob, named, parsed,
                          Detect(rom_directory, dir, paths, data, legacy_loader,
                                 desired, oob, past_end))

(***************************************************************************)
(* Gain parsing (common/gain.cpp).  A string is a sequence of characters,  *)
(* each a one-character string; CharCode gives the code the comparisons of *)
(* the program see.  A float is [kind, neg, int, frac]: int and frac are   *)
(* the digits before and after the decimal point, without leading and     *)
(* without trailing zeros, and neg is the sign.  Kind "dec" is that        *)
(* number, kind "pow10" is 10 raised to that number over 20, a finite      *)
(* float above zero, and kind "inf" is the infinity.                       *)
(***************************************************************************)
CharCode ==
    ("+" :> 43) @@ ("-" :> 45) @@ ("." :> 46) @@ ("0" :> 48) @@ ("1" :> 49) @@
    ("2" :> 50) @@ ("3" :> 51) @@ ("4" :> 52) @@ ("5" :> 53) @@ ("6" :> 54) @@
    ("7" :> 55) @@ ("8" :> 56) @@ ("9" :> 57) @@ ("b" :> 98) @@ ("d" :> 100) @@
    ("x" :> 120)

Float(kind, neg, int, frac) ==
    [kind |-> kind, neg |-> neg, int |-> int, frac |-> frac]

FloatZero == Float("dec", FALSE, <<>>, <<>>)

RECURSIVE DecimalValue(_)
DecimalValue(digits) ==
    IF digits = <<>> THEN 0
    ELSE 10 * DecimalValue(SubSeq(digits, 1, Len(digits) - 1))
         + (CharCode[digits[Len(digits)]] - CharCode["0"])

\* the whole part int, of digits without leading zeros, is at least the
\* number n of three digits
AtLeast(int, n) == Len(int) > 3 \/ (Len(int) = 3 /\ DecimalValue(int) >= n)

(***************************************************************************)
(* powf(10.f, db / 20.f).  The power is below half of the least float      *)
(* above zero for db <= -904, and the value is 0; it is above the greatest *)
(* finite float for db >= 771, and the value is the infinity.  Between     *)
(* -904 and -903 and between 770 and 771 the value hangs on the rounding   *)
(* of powf; it is taken as finite and above zero there.                    *)
(***************************************************************************)
DbToScalar(db) ==
    IF db.neg /\ AtLeast(db.int, 904) THEN FloatZero
    ELSE IF ~db.neg /\ AtLeast(db.int, 771) THEN Float("inf", FALSE, <<>>, <<>>)
    ELSE Float("pow10", db.neg, db.int, db.frac)

\* the test of the sign the number was written with
IsNegative_SignOnly(f) == f.neg

\* f < 0: a power of ten is never below zero, and neither is -0
IsNegative(f) == f.kind = "dec" /\ f.neg /\ (f.int # <<>> \/ f.frac # <<>>)

IsDigit(ch) == CharCode[ch] >= CharCode["0"] /\ CharCode[ch] <= CharCode["9"]

\* the scan without the test of a second '.'
RECURSIVE ScanNumber_AnyDecimals(_, _, _)
ScanNumber_AnyDecimals(str, i, decimal) ==
    IF i > Len(str) THEN TRUE
    ELSE IF str[i] = "." THEN ScanNumber_AnyDecimals(str, i + 1, TRUE)
    ELSE IF str[i] = "-" \/ str[i] = "+"
      THEN (IF i > 1 THEN FALSE ELSE ScanNumber_AnyDecimals(str, i + 1, decimal))
    ELSE IF ~IsDigit(str[i]) THEN FALSE
    ELSE ScanNumber_AnyDecimals(str, i + 1, decimal)

\* the loop of IsParsableNumber from position i (1-based) on
RECURSIVE ScanNumber(_, _, _)
ScanNumber(str, i, decimal) ==
    IF i > Len(str) THEN TRUE
    ELSE IF str[i] = "."
      THEN (IF decimal THEN FALSE ELSE ScanNumber(str, i + 1, TRUE))
    ELSE IF str[i] = "-" \/ str[i] = "+"
      THEN (IF i > 1 THEN FALSE ELSE ScanNumber(str, i + 1, decimal))
    ELSE IF ~IsDigit(str[i]) THEN FALSE
    ELSE ScanNumber(str, i + 1, decimal)

IsParsableNumber_AnyDecimals(str) == ScanNumber_AnyDecimals(str, 1, FALSE)

IsParsableNumber(str) == ScanNumber(str, 1, FALSE)

\* the first position from i on that holds no digit
RECURSIVE DigitRunEnd(_, _)
DigitRunEnd(str, i) ==
    IF i > Len(str) \/ ~IsDigit(str[i]) THEN i ELSE DigitRunEnd(str, i + 1)

RECURSIVE StripLeadingZeros(_)
StripLeadingZeros(digits) ==
    IF digits # <<>> /\ digits[1] = "0" THEN StripLeadingZeros(Tail(digits))
    ELSE digits

RECURSIVE StripTrailingZeros(_)
StripTrailingZeros(digits) ==
    IF digits # <<>> /\ digits[Len(digits)] = "0"
      THEN StripTrailingZeros(SubSeq(digits, 1, Len(digits) - 1))
    ELSE digits

\* the number of two digit strings of one length: a is below b
RECURSIVE DigitsBelow(_, _)
DigitsBelow(a, b) ==
    IF a = <<>> THEN FALSE
    ELSE IF a[1] # b[1] THEN CharCode[a[1]] < CharCode[b[1]]
    ELSE DigitsBelow(Tail(a), Tail(b))

\* 2^128 - 2^103: a number from here on rounds to no finite float
FloatOverflowDigits ==
    <<"3", "4", "0", "2", "8", "2", "3", "5", "6", "7", "7", "9", "7", "3", "3", "6",
      "6", "1", "6", "3", "7", "5", "3", "9", "3", "9", "5", "4", "5", "8", "1", "4",
      "2", "5", "6", "8", "4", "4", "8">>

\* the number int.frac is beyond the range of a float: strtof sets ERANGE
OutOfFloatRange(int, frac) ==
    \/ Len(int) > Len(FloatOverflowDigits)
    \/ Len(int) = Len(FloatOverflowDigits) /\ ~DigitsBelow(int, FloatOverflowDigits)
    \/ int = <<>> /\ frac # <<>> /\ Len(frac) - Len(StripLeadingZeros(frac)) >= 46

(***************************************************************************)
(* std::stof on a string of these characters: an optional sign, digits, an *)
(* optional '.' and digits; the longest such prefix is converted.  A       *)
(* prefix without a digit throws std::invalid_argument, and a number       *)
(* beyond the range of a float throws std::out_of_range.  A number that    *)
(* rounds to a float below the least normal one is taken as converted.     *)
(***************************************************************************)
stof(str) ==
    LET signed == Len(str) > 0 /\ str[1] \in {"+", "-"}
        start == IF signed THEN 2 ELSE 1
        int_end == DigitRunEnd(str, start)
        has_dot == int_end <= Len(str) /\ str[int_end] = "."
        frac_end == IF has_dot THEN DigitRunEnd(str, int_end + 1) ELSE int_end
        int_digits == SubSeq(str, start, int_end - 1)
        frac_digits == IF has_dot THEN SubSeq(str, int_end + 1, frac_end - 1) ELSE <<>>
        int == StripLeadingZeros(int_digits)
        frac == StripTrailingZeros(frac_digits)
    IN IF int_digits = <<>> /\ frac_digits = <<>>
         THEN [thrown |-> TRUE, num |-> FloatZero]
       ELSE IF OutOfFloatRange(int, frac)
         THEN [thrown |-> TRUE, num |-> FloatZero]
       ELSE [thrown |-> FALSE, num |-> Float("dec", signed /\ str[1] = "-", int, frac)]

ends_with_db(str) ==
    Len(str) >= 2 /\ str[Len(str) - 1] = "d" /\ str[Len(str)] = "b"

\* ParseGainResult{}
ParseGainSuccess == "ParseGainResult{}"

(***************************************************************************)
(* ParseGain(str, out_gain): [ret, out_gain].  The conversion is the one   *)
(* of the std::stof branch.                                                *)
(***************************************************************************)
ParseGain(str, out_gain) ==
    LET unit == IF ends_with_db(str) THEN "Decibels" ELSE "Scalar"
        number == IF ends_with_db(str) THEN SubSeq(str, 1, Len(str) - 2) ELSE str
        unsigned == IF Len(number) > 0 /\ number[1] = "+"
                      THEN SubSeq(number, 2, Len(number)) ELSE number
        conv == stof(unsigned)
        gain == IF unit = "Scalar" THEN conv.num ELSE DbToScalar(conv.num)
    IN IF ~IsParsableNumber(number)
         THEN [ret |-> "InvalidNumber", out_gain |-> out_gain]
       ELSE IF conv.thrown
         THEN [ret |-> "ParseFailed", out_gain |-> out_gain]
       ELSE IF IsNegative(gain)
         THEN [ret |-> "OutOfRange", out_gain |-> gain]
       ELSE [ret |-> ParseGainSuccess, out_gain |-> gain]

(***************************************************************************)
(* Bounds of the model.                                                    *)
(***************************************************************************)
\* the highest bank of the addresses the transform is applied to
MaxBank == 2
\* entries of the rom directory in one detection pass
MaxDirLen == 2
\* calls made on the table
MaxCalls == 2
\* characters of a gain argument
MaxGainLen == 4

(***************************************************************************)
(* Inputs.                                                                 *)
(***************************************************************************)
DirEntries ==
    {"roms/rom1.bin", "roms/waverom2.bin", "roms/cm300_rom2.bin", "roms/scc1_rom2.bin",
     "roms/waverom1.bin", "roms/rom_sm.bin", "roms/sc55_rom1.bin", "roms/backup",
     "roms/.lock"}

\* the orders in which an iterator can yield a directory of n entries
ListingsOfLen(n) ==
    {s \in [1 .. n -> DirEntries] : \A i, j \in 1 .. n : i # j => s[i] # s[j]}

NoDir == [exists |-> FALSE, listing |-> <<>>]

Directories ==
    {NoDir} \cup
    {[exists |-> TRUE, listing |-> s] : s \in UNION {ListingsOfLen(n) : n \in 0 .. MaxDirLen}}

DesiredChoices == {NoDesired, DesiredOnly(ROM1), DesiredOnly(WAVEROM2)}

\* what a status array of the caller can hold before the callee writes it
StaleLoadStatus == {[l \in Locations |-> "Failed"], [l \in Locations |-> "Loaded"]}
StaleCompletionStatus == {[l \in Locations |-> "Missing"], [l \in Locations |-> "Present"]}

\* what the Romset variable passed to EMU_PickCompleteRomset can hold
StaleRomsets == {MK2, SC155}

\* the --romset argument: none, three names of the table, a display name and
\* a name of the table in upper case
RomsetNames == {"", "mk2", "jv880", "sc155mk2", "SC-55mk2", "MK2"}

NoOverrides == [j \in Locations |-> ""]

\* the --override-* arguments
OverrideChoices ==
    {NoOverrides,
     [NoOverrides EXCEPT ![WAVEROM3] = "user/card.bin"],
     [NoOverrides EXCEPT ![ROM1] = "user/patch.bin", ![ROM2] = "user/patch.bin",
                         ![WAVEROM1] = "user/card.bin", ![WAVEROM2] = "user/card.bin"],
     [NoOverrides EXCEPT ![ROM2] = "user/gone.bin"],
     [NoOverrides EXCEPT ![ROM2] = "user/patch.bin", ![SMROM] = "user/empty.bin",
                         ![WAVEROM2] = "user/empty.bin"]}

\* the rom directory as LoadRomset finds it
LoadDirectories ==
    {NoDir,
     [exists |-> TRUE, listing |-> <<"roms/rom1.bin", "roms/waverom2.bin">>],
     [exists |-> TRUE, listing |-> <<"roms/cm300_rom2.bin", "roms/scc1_rom2.bin">>],
     [exists |-> TRUE, listing |-> <<"roms/.lock">>],
     [exists |-> TRUE,
      listing |-> <<"roms/mk2_waverom1.bin", "roms/rom1.bin", "roms/mk2_rom_sm.bin",
                    "roms/waverom2.bin", "roms/mk2_rom2.bin">>],
     [exists |-> TRUE,
      listing |-> <<"roms/jv880_waverom2.bin", "roms/jv880_rom1.bin",
                    "roms/jv880_waverom1.bin", "roms/jv880_rom2.bin">>]}

\* what the LoadRomsetResult of the caller can hold before the call
StaleResults ==
    {[romset |-> MK2, completion |-> [l \in Locations |-> "Missing"],
      loaded |-> [l \in Locations |-> "Failed"]],
     [romset |-> SC155, completion |-> [l \in Locations |-> "Present"],
      loaded |-> [l \in Locations |-> "Loaded"]]}

\* addresses within a bank: the ends of the bank, the first 64, and the
\* addresses with one bit, two bits, or all bits but one set
BankOffsets ==
    {0, 1048575} \cup (0 .. 63)
    \cup {2 ^ j : j \in 0 .. 19}
    \cup {2 ^ j + 2 ^ k : j, k \in 0 .. 19}
    \cup {1048575 - 2 ^ j : j \in 0 .. 19}

\* destination indices of a buffer of MaxBank + 1 banks
SampleAddresses == {b * 1048576 + x : b \in 0 .. MaxBank, x \in BankOffsets}

\* buffers of 32 bytes, a length on which the address permutation is closed
SampleBuffers == {ImgWave8M, ImgCardWave, ImgMk2Wave1, ImgJvWave1, ImgJvWave2}

\* what a write beyond the end of the filter does: a fault that ends the
\* process, or a write that misses the filter
PastEndWriteOutcomes == {"fault", "miss"}

\* what a read beyond the end of a buffer yields: a byte, or -1 for a fault
\* that ends the process
OutOfBoundsOutcomes == {-1, 0, 255}

GainChars == {"+", "-", ".", "0", "2", "5", "6", "9", "b", "d", "x"}

\* longer arguments: numbers of decibels beyond what a float can hold as a
\* scalar, and a number of forty digits
LongGainArguments ==
    {<<"-", "1", "0", "0", "0", "d", "b">>, <<"+", "1", "0", "0", "0", "d", "b">>,
     <<"1", "0", "0", "0", "d", "b">>, <<"-", "0", ".", "5", "d", "b">>,
     <<"+", "1", "2", "d", "b">>, <<"-", "1", "2", "d", "b">>,
     <<"-", "1", "0", "0", "0">>,
     [i \in 1 .. 40 |-> IF i = 1 THEN "1" ELSE "0"] \o <<"d", "b">>,
     <<"-">> \o [i \in 1 .. 40 |-> IF i = 1 THEN "1" ELSE "0"]}

\* the gain arguments: every string of at most MaxGainLen characters, and
\* the longer ones
GainArguments ==
    UNION {[1 .. n -> GainChars] : n \in 0 .. MaxGainLen} \cup LongGainArguments

\* what the float of the caller holds before the call
EarlierGains == {FloatZero, Float("dec", FALSE, <<"1">>, <<>>)}

(***************************************************************************)
(* State.                                                                  *)
(*   rom_paths, rom_data   the EMU_AllRomsetInfo                           *)
(*   pre_paths, pre_data   the table on entry to the last call             *)
(*   call                  the last call: its name, arguments and return   *)
(*   completion, loaded    the status arrays of the caller                 *)
(*   out_romset            the Romset variable of the caller               *)
(*   reads                 the reads of the last call: <<location, path>>  *)
(*                         for a read by the loader, <<-1, path>> for a    *)
(*                         read by the hash detector                       *)
(*   fault                 an out-of-bounds access has ended the process   *)
(*   ncalls                calls made so far                               *)
(*   lr                    the last call of LoadRomset: its arguments, its *)
(*                         error, the step that returned, and the table    *)
(*                         after detection and after the override loop     *)
(*   tx                    the last application of the descrambling        *)
(*                         transform: to an address, a byte or a buffer    *)
(*   pg                    the last call of ParseGain: its argument, the   *)
(*                         float of the caller before and after, and the   *)
(*                         result                                          *)
(***************************************************************************)
VARIABLES rom_paths, rom_data, pre_paths, pre_data, call, completion, loaded,
          out_romset, reads, fault, ncalls, lr, tx, pg

vars == <<rom_paths, rom_data, pre_paths, pre_data, call, completion, loaded,
          out_romset, reads, fault, ncalls, lr, tx, pg>>

table_vars == <<rom_paths, rom_data, pre_paths, pre_data, call, completion, loaded,
                out_romset, reads, fault, ncalls, lr>>

EmptyPaths == [r \in Romsets |-> [l \in Locations |-> ""]]
EmptyData == [r \in Romsets |-> [l \in Locations |-> <<>>]]

Call(op, romset, desired, dir, ret) ==
    [op |-> op, romset |-> romset, desired |-> desired, dir |-> dir, ret |-> ret]

NoLoad ==
    [desired_romset |-> "", legacy_loader |-> FALSE, overrides |-> NoOverrides,
     error |-> "NoError", stage |-> "none",
     det_paths |-> EmptyPaths, det_data |-> EmptyData,
     ov_paths |-> EmptyPaths, ov_data |-> EmptyData]

NoParse ==
    [called |-> FALSE, str |-> <<>>, gain_before |-> FloatZero,
     out_gain |-> FloatZero, ret |-> ParseGainSuccess]

Init ==
    /\ rom_paths = EmptyPaths
    /\ rom_data = EmptyData
    /\ pre_paths = EmptyPaths
    /\ pre_data = EmptyData
    /\ call = Call("none", MK2, NoDesired, NoDir, FALSE)
    /\ completion = [l \in Locations |-> "Unused"]
    /\ loaded = [l \in Locations |-> "Unused"]
    /\ out_romset = MK2
    /\ reads = {}
    /\ fault = FALSE
    /\ ncalls = 0
    /\ lr = NoLoad
    /\ tx = [op |-> "none", in |-> 0, out |-> 0]
    /\ pg = NoParse

Enter ==
    /\ ~fault
    /\ ncalls < MaxCalls
    /\ ncalls' = ncalls + 1
    /\ pre_paths' = rom_paths
    /\ pre_data' = rom_data
    /\ UNCHANGED <<tx, pg>>

\* the process ends in the middle of the call named op
Faulted(op, romset, desired, dir) ==
    /\ fault' = TRUE
    /\ call' = Call(op, romset, desired, dir, FALSE)
    /\ UNCHANGED <<rom_paths, rom_data, completion, loaded, out_romset, reads>>

DetectByHash ==
    /\ Enter
    /\ UNCHANGED lr
    /\ \E dir \in Directories, desired \in DesiredChoices :
      \E r0 \in {EMU_DetectRomsetsByHash(dir, rom_paths, rom_data, desired, 0)} :
        /\ \E oob \in (IF r0.oob_read THEN OutOfBoundsOutcomes ELSE {0}) :
             IF oob = -1 THEN Faulted("EMU_DetectRomsetsByHash", MK2, desired, dir)
             ELSE \E r \in {IF oob = 0 THEN r0
                            ELSE EMU_DetectRomsetsByHash(dir, rom_paths, rom_data,
                                                         desired, oob)} :
               /\ rom_paths' = r.paths
               /\ rom_data' = r.data
               /\ reads' = r.reads
               /\ call' = Call("EMU_DetectRomsetsByHash", MK2, desired, dir, r.ret)
               /\ UNCHANGED <<completion, loaded, out_romset, fault>>

DetectByFilename ==
    /\ Enter
    /\ UNCHANGED lr
    /\ \E desired \in DesiredChoices, past_end \in BOOLEAN :
      /\ rom_paths' = EMU_DetectRomsetsByFilename("roms", rom_paths, desired, past_end)
      /\ reads' = {}
      /\ call' = Call("EMU_DetectRomsetsByFilename", MK2, desired,
                      [exists |-> TRUE, listing |-> <<>>], TRUE)
      /\ UNCHANGED <<rom_data, completion, loaded, out_romset, fault>>

IsCompleteRomset ==
    /\ Enter
    /\ UNCHANGED lr
    /\ \E romset \in Romsets, status \in StaleCompletionStatus :
      \E r \in {EMU_IsCompleteRomset(rom_paths, rom_data, romset, status)} :
        /\ completion' = r.status
        /\ reads' = {}
        /\ call' = Call("EMU_IsCompleteRomset", romset, NoDesired, NoDir, r.is_complete)
        /\ UNCHANGED <<rom_paths, rom_data, loaded, out_romset, fault>>

PickCompleteRomset ==
    /\ Enter
    /\ UNCHANGED lr
    /\ \E stale \in StaleRomsets :
      \E r \in {EMU_PickCompleteRomset(rom_paths, rom_data, stale)} :
      /\ out_romset' = r.out_romset
      /\ reads' = {}
      /\ call' = Call("EMU_PickCompleteRomset", stale, NoDesired, NoDir, r.ret)
      /\ UNCHANGED <<rom_paths, rom_data, completion, loaded, fault>>

LoadRomsetData ==
    /\ Enter
    /\ UNCHANGED lr
    /\ \E romset \in Romsets, stale \in StaleLoadStatus :
      \E r0 \in {EMU_LoadRomset(romset, rom_paths, rom_data, stale, 0)} :
        /\ \E oob \in (IF r0.oob_read THEN OutOfBoundsOutcomes ELSE {0}) :
             IF oob = -1 THEN Faulted("EMU_LoadRomset", romset, NoDesired, NoDir)
             ELSE \E r \in {IF oob = 0 THEN r0
                            ELSE EMU_LoadRomset(romset, rom_paths, rom_data, stale, oob)} :
               /\ rom_data' = r.data
               /\ loaded' = r.loaded
               /\ reads' = r.reads
               /\ call' = Call("EMU_LoadRomset", romset, NoDesired, NoDir, r.all_loaded)
               /\ UNCHANGED <<rom_paths, completion, out_romset, fault>>

Purge ==
    /\ Enter
    /\ UNCHANGED lr
    /\ rom_data' = PurgeRomData(rom_data)
    /\ reads' = {}
    /\ call' = Call("PurgeRomData", MK2, NoDesired, NoDir, TRUE)
    /\ UNCHANGED <<rom_paths, completion, loaded, out_romset, fault>>

\* the frontend calls LoadRomset once, on the table as constructed
LoadRomsetCall ==
    /\ Enter
    /\ lr.stage = "none"
    /\ \E desired_romset \in RomsetNames, legacy_loader \in BOOLEAN,
          overrides \in OverrideChoices, dir \in LoadDirectories,
          result \in StaleResults :
      \E parsed \in {EMU_ParseRomsetName(desired_romset, result.romset)} :
      \E wr \in (IF desired_romset # "" /\ parsed.ret /\ WritesPastEnd(parsed.romset)
                 THEN PastEndWriteOutcomes ELSE {"none"}),
         past_end \in (IF desired_romset # "" /\ parsed.ret /\ legacy_loader
                       THEN BOOLEAN ELSE {FALSE}) :
        LET desired == IF desired_romset # "" THEN DesiredRomset(parsed.romset)
                       ELSE NoDesired
            started == [NoLoad EXCEPT !.desired_romset = desired_romset,
                                      !.legacy_loader = legacy_loader,
                                      !.overrides = overrides,
                                      !.stage = "fault"]
        IN
        IF wr = "fault"
        THEN /\ Faulted("LoadRomset", parsed.romset, desired, dir)
             /\ lr' = started
        ELSE
          \E r0 \in {LoadRomset(rom_paths, rom_data, "roms", dir, desired_romset,
                                legacy_loader, overrides, result, 0, past_end)} :
          \E oob \in (IF r0.oob_read THEN OutOfBoundsOutcomes ELSE {0}) :
            IF oob = -1
            THEN /\ Faulted("LoadRomset", r0.romset, desired, dir)
                 /\ lr' = started
            ELSE
              \E r \in {IF oob = 0 THEN r0
                        ELSE LoadRomset(rom_paths, rom_data, "roms", dir,
                                        desired_romset, legacy_loader, overrides,
                                        result, oob, past_end)} :
                /\ rom_paths' = r.paths
                /\ rom_data' = r.data
                /\ out_romset' = r.romset
                /\ completion' = r.completion
                /\ loaded' = r.loaded
                /\ reads' = r.reads
                /\ call' = Call("LoadRomset", r.romset, desired, dir,
                                r.error = "NoError")
                /\ lr' = [started EXCEPT !.error = r.error, !.stage = r.stage,
                                         !.det_paths = r.det_paths,
                                         !.det_data = r.det_data,
                                         !.ov_paths = r.ov_paths,
                                         !.ov_data = r.ov_data]
                /\ UNCHANGED fault

Next ==
    \/ DetectByHash
    \/ DetectByFilename
    \/ IsCompleteRomset
    \/ PickCompleteRomset
    \/ LoadRomsetData
    \/ Purge

Spec == Init /\ [][Next]_vars

\* the frontend: LoadRomset, the completeness report and the purge
NextLoadRomset ==
    \/ LoadRomsetCall
    \/ IsCompleteRomset
    \/ Purge

SpecLoadRomset == Init /\ [][NextLoadRomset]_vars

(***************************************************************************)
(* The descrambling transform applied on its own: the address computation  *)
(* of the loop body for one destination index, the byte computation for    *)
(* one source byte, and the whole loop for a buffer; one application in a  *)
(* behaviour.                                                              *)
(***************************************************************************)
UnscrambleAddress ==
    /\ tx.op = "none"
    /\ \E i \in SampleAddresses :
         tx' = [op |-> "address", in |-> i, out |-> SrcAddress(i)]
    /\ UNCHANGED <<table_vars, pg>>

UnscrambleByte ==
    /\ tx.op = "none"
    /\ \E srcdata \in 0 .. 255 :
         tx' = [op |-> "byte", in |-> srcdata, out |-> PermuteByte(srcdata)]
    /\ UNCHANGED <<table_vars, pg>>

UnscrambleBuffer ==
    /\ tx.op = "none"
    /\ \E src \in SampleBuffers :
         tx' = [op |-> "buffer", in |-> src, out |-> unscramble(src, Len(src), 0)]
    /\ UNCHANGED <<table_vars, pg>>

NextUnscramble ==
    \/ UnscrambleAddress
    \/ UnscrambleByte
    \/ UnscrambleBuffer

SpecUnscramble == Init /\ [][NextUnscramble]_vars

(***************************************************************************)
(* ParseGain applied once to a gain argument, the float of the caller      *)
(* holding any of the earlier values.                                      *)
(***************************************************************************)
ParseGainCall ==
    /\ ~pg.called
    /\ \E str \in GainArguments, out_gain \in EarlierGains :
         LET res == ParseGain(str, out_gain)
         IN pg' = [called |-> TRUE, str |-> str, gain_before |-> out_gain,
                   out_gain |-> res.out_gain, ret |-> res.ret]
    /\ UNCHANGED <<table_vars, tx>>

NextParseGain == ParseGainCall

SpecParseGain == Init /\ [][NextParseGain]_vars

(***************************************************************************)
(* Vocabulary of the properties.                                           *)
(***************************************************************************)
CatalogRows == {EMU_HASHES[n] : n \in 1 .. Len(EMU_HASHES)}

\* the last call was op and it returned
Returned(op) == call.op = op /\ ~fault

Listed == {call.dir.listing[k] : k \in 1 .. Len(call.dir.listing)}

\* a readable regular file of at most 4 MiB
Hashable(p) ==
    /\ p \in DOMAIN FileSystem
    /\ FileSystem[p].type = "regular"
    /\ FileSystem[p].err = "none"
    /\ FileSystem[p].readable
    /\ FileSystem[p].size <= 4194304

FileBytes(p) == FileSystem[p].bytes
FileDigest(p) == SHA256(FileBytes(p))

PresentBefore(r, l) == HasRom(pre_paths, pre_data, r, l)
PresentNow(r, l) == HasRom(rom_paths, rom_data, r, l)

\* the descrambling transform of bytes holds in out, at every index whose
\* source address lies in bytes
IsDescrambled(out, bytes) ==
    /\ Len(out) = Len(bytes)
    /\ \A i \in 1 .. Len(bytes) :
         SrcAddress(i - 1) < Len(bytes)
           => out[i] = PermuteByte(bytes[SrcAddress(i - 1) + 1])

(***************************************************************************)
(* C1.  No clobber: every (romset, slot) that has a path or data before    *)
(* EMU_DetectRomsetsByHash is called has the same path and the same data   *)
(* after the call, whatever the directory, its order and the filter.       *)
(***************************************************************************)
C1_NoClobber ==
    Returned("EMU_DetectRomsetsByHash") =>
      \A r \in Romsets, l \in Locations :
        PresentBefore(r, l) =>
          /\ rom_paths[r][l] = pre_paths[r][l]
          /\ rom_data[r][l] = pre_data[r][l]

\* a populated slot met a listed file, other than its own, that matches a
\* catalog digest of the slot
C1_Witness ==
    /\ Returned("EMU_DetectRomsetsByHash")
    /\ call.ret
    /\ \E r \in Romsets, l \in Locations, p \in Listed :
         /\ PresentBefore(r, l)
         /\ Hashable(p)
         /\ p # pre_paths[r][l]
         /\ <<FileDigest(p), r, l>> \in CatalogRows

(***************************************************************************)
(* C2 as stated.  From an empty table, when the directory holds a readable *)
(* regular file of at most 4 MiB whose digest is the digest of a catalog   *)
(* row, then after EMU_DetectRomsetsByHash returns true every (romset,     *)
(* slot) of every row with that digest has a non-empty path naming a file  *)
(* with that digest.                                                       *)
(***************************************************************************)
FromEmptyTable == pre_paths = EmptyPaths /\ pre_data = EmptyData

C2_PathHasThatDigest ==
    (Returned("EMU_DetectRomsetsByHash") /\ call.ret /\ FromEmptyTable) =>
      \A p \in Listed, known \in CatalogRows :
        (Hashable(p) /\ known[1] = FileDigest(p)) =>
          /\ rom_paths[known[2]][known[3]] # ""
          /\ rom_paths[known[2]][known[3]] \in DOMAIN FileSystem
          /\ FileDigest(rom_paths[known[2]][known[3]]) = known[1]

(***************************************************************************)
(* C2 amended.  Under the same conditions every (romset, slot) of every    *)
(* row with that digest has a non-empty path naming a readable regular     *)
(* file of the directory, of at most 4 MiB, whose digest is the digest of  *)
(* a catalog row of that (romset, slot): the first such file enumerated,   *)
(* which has that very digest when that first such file is the file        *)
(* itself.                                                                 *)
(***************************************************************************)
\* the position of p in the listing
PositionOf(p) == CHOOSE k \in 1 .. Len(call.dir.listing) : call.dir.listing[k] = p

MatchesSlot(p, r, l) == Hashable(p) /\ <<FileDigest(p), r, l>> \in CatalogRows

C2_PathHasSlotDigest ==
    (Returned("EMU_DetectRomsetsByHash") /\ call.ret /\ FromEmptyTable) =>
      \A p \in Listed, known \in CatalogRows :
        (Hashable(p) /\ known[1] = FileDigest(p)) =>
          LET q == rom_paths[known[2]][known[3]] IN
            /\ q \in Listed
            /\ MatchesSlot(q, known[2], known[3])
            /\ \A o \in Listed :
                 MatchesSlot(o, known[2], known[3]) => PositionOf(q) <= PositionOf(o)

\* one file has populated slots of several romsets, at different locations
C2_Witness ==
    /\ Returned("EMU_DetectRomsetsByHash")
    /\ call.ret
    /\ FromEmptyTable
    /\ \E p \in Listed :
         /\ Hashable(p)
         /\ rom_paths[MK2][WAVEROM2] = p
         /\ rom_paths[CM300][WAVEROM3] = p
         /\ rom_paths[SC155MK2][WAVEROM2] = p

(***************************************************************************)
(* C3.  The data EMU_DetectRomsetsByHash materializes for a newly assigned *)
(* slot that the filter selects is what EMU_LoadRomset produces from the   *)
(* slot's path: the bytes of the file for a program slot, the descrambled  *)
(* bytes of the file for a wave slot.                                      *)
(***************************************************************************)
\* what the loader makes of the file at path p for location l
LoaderData(p, l) ==
    LET t == EMU_LoadRomset(MK2, [EmptyPaths EXCEPT ![MK2][l] = p], EmptyData,
                            [k \in Locations |-> "Unused"], 0)
    IN t.data[MK2][l]

C3_EagerDataIsLoaderData ==
    Returned("EMU_DetectRomsetsByHash") =>
      \A r \in Romsets, l \in Locations :
        (/\ ~PresentBefore(r, l)
         /\ call.desired.given /\ call.desired.set[l]
         /\ rom_data[r][l] # <<>>)
          => rom_data[r][l] = LoaderData(rom_paths[r][l], l)

(***************************************************************************)
(* C4.  When EMU_LoadRomset reads the file of a slot that has a path and   *)
(* no data, the data of the slot is then the bytes of the file for a       *)
(* program slot and the descrambling transform of these bytes, of the same *)
(* length, for a wave slot.                                                *)
(***************************************************************************)
ReadByLoader(l) ==
    /\ pre_paths[call.romset][l] # ""
    /\ pre_data[call.romset][l] = <<>>
    /\ loaded[l] = "Loaded"

C4_LoaderData ==
    Returned("EMU_LoadRomset") =>
      \A l \in Locations :
        ReadByLoader(l) =>
          IF l \in {WAVEROM1, WAVEROM2, WAVEROM3, WAVEROM_CARD, WAVEROM_EXP}
          THEN IsDescrambled(rom_data[call.romset][l], FileBytes(pre_paths[call.romset][l]))
          ELSE rom_data[call.romset][l] = FileBytes(pre_paths[call.romset][l])

\* one call has read a program slot and a wave slot whose 32 bytes the
\* transform rearranges
C4_Witness ==
    /\ Returned("EMU_LoadRomset")
    /\ ReadByLoader(ROM1)
    /\ ReadByLoader(WAVEROM2)
    /\ Len(rom_data[call.romset][WAVEROM2]) = 32
    /\ rom_data[call.romset][WAVEROM2] # FileBytes(pre_paths[call.romset][WAVEROM2])
    /\ rom_data[call.romset][ROM1] # <<>>

(***************************************************************************)
(* C5.  EMU_LoadRomset writes a status for each of the 8 slots of the      *)
(* romset: Unused exactly when the slot had neither path nor data on       *)
(* entry; Loaded when it had data on entry, the data being left as it was  *)
(* and the file at its path not read; otherwise Loaded or Failed according *)
(* to whether the read succeeded.                                          *)
(***************************************************************************)
CanRead(p) ==
    p \in DOMAIN FileSystem /\ FileSystem[p].type = "regular" /\ FileSystem[p].readable

C5_LoadStatus ==
    Returned("EMU_LoadRomset") =>
      \A l \in Locations :
        LET p == pre_paths[call.romset][l]
            d == pre_data[call.romset][l]
        IN /\ (loaded[l] = "Unused") <=> (p = "" /\ d = <<>>)
           /\ d # <<>> =>
                /\ loaded[l] = "Loaded"
                /\ rom_data[call.romset][l] = d
                /\ <<l, p>> \notin reads
           /\ (p # "" /\ d = <<>>) =>
                loaded[l] = (IF CanRead(p) THEN "Loaded" ELSE "Failed")

\* one call met a slot holding data, a slot to read and an empty slot
C5_Witness ==
    /\ Returned("EMU_LoadRomset")
    /\ \E l1, l2, l3 \in Locations :
         /\ pre_data[call.romset][l1] # <<>>
         /\ pre_paths[call.romset][l1] # ""
         /\ loaded[l1] = "Loaded"
         /\ ReadByLoader(l2)
         /\ pre_paths[call.romset][l3] = ""
         /\ loaded[l3] = "Unused"

(***************************************************************************)
(* C6.  EMU_LoadRomset is best-effort: a failed read marks its slot Failed *)
(* and leaves its data empty, every slot with a path and no data is read   *)
(* and marked whatever happened to the slots before it, and the call       *)
(* returns true if and only if no slot is marked Failed.                   *)
(***************************************************************************)
C6_BestEffort ==
    Returned("EMU_LoadRomset") =>
      /\ \A l \in Locations :
           loaded[l] = "Failed" => rom_data[call.romset][l] = <<>>
      /\ \A l \in Locations :
           (pre_paths[call.romset][l] # "" /\ pre_data[call.romset][l] = <<>>) =>
             /\ <<l, pre_paths[call.romset][l]>> \in reads
             /\ loaded[l] \in {"Loaded", "Failed"}
      /\ call.ret <=> (\A l \in Locations : loaded[l] # "Failed")

\* a slot failed and a later slot was read and loaded
C6_Witness ==
    /\ Returned("EMU_LoadRomset")
    /\ ~call.ret
    /\ \E l1, l2 \in Locations :
         /\ l1 < l2
         /\ loaded[l1] = "Failed"
         /\ ReadByLoader(l2)
         /\ rom_data[call.romset][l2] # <<>>

(***************************************************************************)
(* C7.  EMU_IsCompleteRomset returns true if and only if every slot that   *)
(* has a catalog row for the romset, and is not WAVEROM_CARD or            *)
(* WAVEROM_EXP of JV880, has a path or data.                               *)
(***************************************************************************)
Mapped(r, s) == \E known \in CatalogRows : known[2] = r /\ known[3] = s

OptionalPair(r, s) == r = JV880 /\ s \in {WAVEROM_CARD, WAVEROM_EXP}

C7_CompleteVerdict ==
    Returned("EMU_IsCompleteRomset") =>
      (call.ret <=>
         \A s \in Locations :
           (Mapped(call.romset, s) /\ ~OptionalPair(call.romset, s)) =>
             PresentNow(call.romset, s))

\* JV880 is found complete with an optional slot missing
C7_Witness ==
    /\ Returned("EMU_IsCompleteRomset")
    /\ call.romset = JV880
    /\ call.ret
    /\ \E s \in Locations : OptionalPair(JV880, s) /\ ~PresentNow(JV880, s)
    /\ \E s \in Locations : Mapped(JV880, s) /\ PresentNow(JV880, s)

(***************************************************************************)
(* C8.  The classification of EMU_IsCompleteRomset is a function of the    *)
(* table: a slot with a catalog row for the romset is Present when it has  *)
(* a path or data and Missing when it has neither and is not optional; a   *)
(* slot with no catalog row for the romset is Unused whatever it holds, as *)
(* is a missing optional slot; what the array held before is not kept.     *)
(***************************************************************************)
C8_Classification ==
    Returned("EMU_IsCompleteRomset") =>
      \A s \in Locations :
        completion[s] =
          IF ~Mapped(call.romset, s) THEN "Unused"
          ELSE IF PresentNow(call.romset, s) THEN "Present"
          ELSE IF ~OptionalPair(call.romset, s) THEN "Missing"
          ELSE "Unused"

\* one call reports a slot without catalog row that holds a path, a present
\* slot and a missing slot
C8_Witness ==
    /\ Returned("EMU_IsCompleteRomset")
    /\ \E s1, s2, s3 \in Locations :
         /\ ~Mapped(call.romset, s1)
         /\ rom_paths[call.romset][s1] # ""
         /\ completion[s1] = "Unused"
         /\ completion[s2] = "Present"
         /\ completion[s3] = "Missing"

(***************************************************************************)
(* C9.  EMU_PickCompleteRomset returns true with out_romset = i exactly    *)
(* when romset i is complete and no romset below i is; it returns false,   *)
(* leaving out_romset as it was, exactly when no romset is complete.       *)
(***************************************************************************)
CompleteNow(i) ==
    EMU_IsCompleteRomset(rom_paths, rom_data, i, [l \in Locations |-> "Unused"]).is_complete

C9_PickLowest ==
    Returned("EMU_PickCompleteRomset") =>
      /\ call.ret <=> (\E i \in Romsets : CompleteNow(i))
      /\ call.ret =>
           /\ CompleteNow(out_romset)
           /\ \A j \in Romsets : j < out_romset => ~CompleteNow(j)
      /\ ~call.ret => out_romset = call.romset

\* several romsets are complete and the lowest was picked, over a stale value
C9_Witness ==
    /\ Returned("EMU_PickCompleteRomset")
    /\ call.ret
    /\ out_romset # call.romset
    /\ \E j \in Romsets : j > out_romset /\ CompleteNow(j)

(***************************************************************************)
(* C10.  After the override loop of LoadRomset, every slot with a          *)
(* non-empty override has the override as its path and no data, in each of *)
(* the 9 romsets, and every slot with an empty override has the path and   *)
(* the data it had before the loop, in each of the 9 romsets.              *)
(***************************************************************************)
OverridesApplied == lr.stage \in {"complete", "load"}

C10_Overrides ==
    OverridesApplied =>
      /\ \A r \in Romsets, s \in Locations :
           IF lr.overrides[s] # ""
           THEN /\ lr.ov_paths[r][s] = lr.overrides[s]
                /\ lr.ov_data[r][s] = <<>>
           ELSE /\ lr.ov_paths[r][s] = lr.det_paths[r][s]
                /\ lr.ov_data[r][s] = lr.det_data[r][s]
      /\ Returned("LoadRomset") => rom_paths = lr.ov_paths

\* an override replaced a detected path and its data, and a detected slot
\* without override was there to keep
C10_Witness ==
    /\ OverridesApplied
    /\ \E r \in Romsets, s \in Locations :
         /\ lr.overrides[s] # ""
         /\ lr.det_paths[r][s] \notin {"", lr.overrides[s]}
         /\ lr.det_data[r][s] # <<>>
    /\ \E r \in Romsets, s \in Locations :
         /\ lr.overrides[s] = ""
         /\ lr.det_paths[r][s] # ""

(***************************************************************************)
(* C11.  When LoadRomset is called with the name of a romset, with hash    *)
(* detection, on a directory that holds a file for the digest of every     *)
(* mandatory slot of that romset and no other file, it returns without     *)
(* error, with result.romset the romset named, every mandatory slot Loaded *)
(* and every optional slot without a file Unused; and it returns without   *)
(* error only when detection succeeded, the romset resolved is complete    *)
(* and no slot is Failed.                                                  *)
(***************************************************************************)
\* the romset that name designates
RomsetNamed(name) == EMU_ParseRomsetName(name, MK2).romset

IsRomsetName(name) == EMU_ParseRomsetName(name, MK2).ret

Mandatory(r, s) == Mapped(r, s) /\ ~OptionalPair(r, s)

\* dir holds the dump of romset r and nothing else
HoldsDumpOf(dir, r) ==
    LET files == {dir.listing[k] : k \in 1 .. Len(dir.listing)} IN
      /\ dir.exists
      /\ \A p \in files : \E s \in Locations : Mandatory(r, s) /\ MatchesSlot(p, r, s)
      /\ \A s \in Locations : Mandatory(r, s) => \E p \in files : MatchesSlot(p, r, s)

DumpRequested ==
    /\ call.op = "LoadRomset"
    /\ IsRomsetName(lr.desired_romset)
    /\ ~lr.legacy_loader
    /\ HoldsDumpOf(call.dir, RomsetNamed(lr.desired_romset))
    /\ lr.overrides = NoOverrides

SuccessOnlyAfterAllSteps ==
    (Returned("LoadRomset") /\ lr.error = "NoError") =>
      /\ lr.stage = "load"
      /\ call.ret
      /\ \A s \in Locations :
           /\ Mandatory(out_romset, s) => PresentNow(out_romset, s)
           /\ loaded[s] # "Failed"

C11_EndToEnd ==
    /\ DumpRequested =>
         /\ ~fault
         /\ lr.error = "NoError"
         /\ out_romset = RomsetNamed(lr.desired_romset)
         /\ \A s \in Locations :
              /\ Mandatory(out_romset, s) => loaded[s] = "Loaded"
              /\ OptionalPair(out_romset, s) => loaded[s] = "Unused"
    /\ SuccessOnlyAfterAllSteps

\* the same for the names whose ordinal is an index of the filter
C11_EndToEndWithinFilter ==
    /\ (DumpRequested
          /\ ~WritesPastEnd(RomsetNamed(lr.desired_romset))) =>
         /\ ~fault
         /\ lr.error = "NoError"
         /\ out_romset = RomsetNamed(lr.desired_romset)
         /\ \A s \in Locations :
              /\ Mandatory(out_romset, s) => loaded[s] = "Loaded"
              /\ OptionalPair(out_romset, s) => loaded[s] = "Unused"
    /\ SuccessOnlyAfterAllSteps

(***************************************************************************)
(* C12.  When an override names a file that cannot be read and LoadRomset  *)
(* comes to load the romset it resolved (the name was valid, detection     *)
(* succeeded, a romset was resolved and found complete), it returns        *)
(* RomLoadFailed with the overridden slot Failed, while every other slot   *)
(* of that romset that holds data, or a path to a readable file, is        *)
(* Loaded.  A call that returns before it loads returns another error.     *)
(***************************************************************************)
UnreadableOverride(s) == lr.overrides[s] # "" /\ ~CanRead(lr.overrides[s])

C12_UnreadableOverride ==
    (Returned("LoadRomset") /\ \E s \in Locations : UnreadableOverride(s)) =>
      /\ lr.error # "NoError"
      /\ lr.stage = "load" =>
           /\ lr.error = "RomLoadFailed"
           /\ \A s \in Locations :
                /\ UnreadableOverride(s) => loaded[s] = "Failed"
                /\ (/\ ~UnreadableOverride(s)
                    /\ \/ lr.ov_data[out_romset][s] # <<>>
                       \/ CanRead(lr.ov_paths[out_romset][s])) => loaded[s] = "Loaded"

\* the load failed at the overridden slot alone, the detected slots around
\* it were loaded
C12_Witness ==
    /\ Returned("LoadRomset")
    /\ lr.error = "RomLoadFailed"
    /\ \E s \in Locations :
         /\ UnreadableOverride(s)
         /\ loaded[s] = "Failed"
         /\ \E s1, s2 \in Locations :
              /\ s1 < s /\ s < s2
              /\ loaded[s1] = "Loaded" /\ loaded[s2] = "Loaded"
         /\ \A o \in Locations : loaded[o] = "Failed" => o = s

(***************************************************************************)
(* C13.  LoadRomset called with a non-empty name that is none of the nine  *)
(* parsable names returns InvalidRomsetName with the table as it was on    *)
(* entry and no file read, and it returns InvalidRomsetName for no other   *)
(* name; in particular not for the empty name.                             *)
(***************************************************************************)
ParsableNames ==
    {"mk2", "st", "mk1", "cm300", "jv880", "scb55", "rlp3237", "sc155", "sc155mk2"}

C13_InvalidRomsetName ==
    call.op = "LoadRomset" =>
      /\ (lr.desired_romset # "" /\ lr.desired_romset \notin ParsableNames) =>
           /\ ~fault
           /\ lr.error = "InvalidRomsetName"
           /\ lr.stage = "parse"
           /\ rom_paths = pre_paths
           /\ rom_data = pre_data
           /\ reads = {}
      /\ (~fault /\ lr.error = "InvalidRomsetName") =>
           (lr.desired_romset # "" /\ lr.desired_romset \notin ParsableNames)
      /\ \A name \in ParsableNames : EMU_ParseRomsetName(name, MK2).ret

\* a name of the table in upper case was refused, though the directory held
\* a dump and an override was given
C13_Witness ==
    /\ Returned("LoadRomset")
    /\ lr.desired_romset = "MK2"
    /\ lr.error = "InvalidRomsetName"
    /\ HoldsDumpOf(call.dir, MK2)
    /\ lr.overrides # NoOverrides
    /\ rom_paths = EmptyPaths

(***************************************************************************)
(* C14.  For each parsable name LoadRomset builds a filter with exactly   *)
(* one entry set, and the index it writes the filter at and the indices    *)
(* the detector reads it at are indices of the filter.                     *)
(***************************************************************************)
FilterIndices == DOMAIN call.desired.set

C14_FilterWithinBounds ==
    (call.op = "LoadRomset" /\ lr.desired_romset \in ParsableNames) =>
      /\ Cardinality({i \in FilterIndices : call.desired.set[i]}) = 1
      /\ FilterIndexWritten(RomsetNamed(lr.desired_romset)) \in FilterIndices
      /\ \A i \in FilterIndicesRead(lr.legacy_loader) : i \in FilterIndices

\* the part of it that holds: the filter has 8 entries, the write is within
\* them for the romsets 0..7 and so are the reads of the hash detector
C14_WithinBoundsBelowOrdinal8 ==
    (call.op = "LoadRomset" /\ lr.desired_romset \in ParsableNames) =>
      /\ FilterIndices = 0 .. EMU_ROMMAPLOCATION_COUNT - 1
      /\ ~WritesPastEnd(RomsetNamed(lr.desired_romset)) =>
           /\ Cardinality({i \in FilterIndices : call.desired.set[i]}) = 1
           /\ FilterIndexWritten(RomsetNamed(lr.desired_romset)) \in FilterIndices
      /\ ~lr.legacy_loader =>
           \A i \in FilterIndicesRead(lr.legacy_loader) : i \in FilterIndices

(***************************************************************************)
(* C15.  EMU_DetectRomsetsByHash neither reads nor assigns a file larger   *)
(* than 4 MiB, whatever its digest; it reads every regular file of at most *)
(* 4 MiB that it enumerates.                                               *)
(***************************************************************************)
LargerThanCeiling(p) == FileSystem[p].size > 4194304

C15_SizeCeiling ==
    Returned("EMU_DetectRomsetsByHash") =>
      \A p \in Listed :
        /\ LargerThanCeiling(p) =>
             /\ <<-1, p>> \notin reads
             /\ \A r \in Romsets, l \in Locations :
                  rom_paths[r][l] = p => pre_paths[r][l] = p
        /\ (/\ call.ret
            /\ FileSystem[p].type = "regular"
            /\ ~LargerThanCeiling(p)) => <<-1, p>> \in reads

\* a dump one byte above the ceiling was left out and a dump of exactly the
\* ceiling was assigned
C15_Witness ==
    /\ Returned("EMU_DetectRomsetsByHash")
    /\ call.ret
    /\ "roms/sc55_rom1.bin" \in Listed
    /\ FileSystem["roms/sc55_rom1.bin"].size = 4194305
    /\ SHA256(FileSystem["roms/sc55_rom1.bin"].bytes) = "7e1bacd1"
    /\ rom_paths[MK1][ROM1] = ""
    /\ "roms/cm300_rom2.bin" \in Listed
    /\ FileSystem["roms/cm300_rom2.bin"].size = 4194304
    /\ rom_paths[CM300][ROM2] = "roms/cm300_rom2.bin"

(***************************************************************************)
(* C16.  The descrambling transform is lossless on whole banks: aa is a    *)
(* permutation of the 20 address bits and dd of the 8 data bits; the       *)
(* source address of a destination index lies in its bank and the inverse  *)
(* address permutation takes it back to the index, and back again; the     *)
(* inverse bit permutation takes the destination byte back to the source   *)
(* byte; and the inverse transform of a descrambled buffer is the buffer.  *)
(***************************************************************************)
\* the address permutation with the roles of index and entry of aa exchanged
InverseAddress(a) ==
    BankOf(a) + OrBits({j \in 0 .. 19 : Bit(a, aa[j + 1]) = 1})

\* the bit permutation with the roles of index and entry of dd exchanged
InverseByte(data) ==
    OrBits({dd[j + 1] : j \in {k \in 0 .. 7 : Bit(data, k) = 1}})

\* the inverse transform of a buffer dst
Rescramble(dst) ==
    [a \in 1 .. Len(dst) |-> InverseByte(dst[InverseAddress(a - 1) + 1])]

C16_Lossless ==
    /\ {aa[j] : j \in 1 .. 20} = 0 .. 19
    /\ {dd[j] : j \in 1 .. 8} = 0 .. 7
    /\ tx.op = "address" =>
         /\ BankOf(tx.out) = BankOf(tx.in)
         /\ InverseAddress(tx.out) = tx.in
         /\ SrcAddress(InverseAddress(tx.in)) = tx.in
    /\ tx.op = "byte" =>
         /\ tx.out \in 0 .. 255
         /\ InverseByte(tx.out) = tx.in
         /\ PermuteByte(InverseByte(tx.in)) = tx.in
    /\ tx.op = "buffer" =>
         /\ Len(tx.out) = Len(tx.in)
         /\ Rescramble(tx.out) = tx.in

\* an index of the second bank was moved within its bank and taken back
C16_Witness ==
    /\ tx.op = "address"
    /\ BankOf(tx.in) = 1048576
    /\ tx.out # tx.in
    /\ BankOf(tx.out) = 1048576
    /\ InverseAddress(tx.out) = tx.in

(***************************************************************************)
(* C17.  EMU_DetectRomsetsByFilename returns true and leaves all data as   *)
(* it was.  A slot with a legacy filename, of a romset the filter selects  *)
(* or of any romset when no filter is given, has the path                  *)
(* base_directory/filename afterwards, whatever it had before and whether  *)
(* or not the file exists; a slot without legacy filename, and a slot of a *)
(* romset whose filter entry is false, keeps its path.                     *)
(***************************************************************************)
LegacyName(r, l) == legacy_rom_names[r + 1][l + 1]

C18_Purge ==
    Returned("PurgeRomData") =>
      /\ rom_paths = pre_paths
      /\ \A r \in Romsets, l \in Locations :
           /\ rom_data[r][l] = <<>>
           /\ PresentNow(r, l) <=> rom_paths[r][l] # ""

\* data of two romsets was released, and their paths are still there
C18_Witness ==
    /\ Returned("PurgeRomData")
    /\ \E r1, r2 \in Romsets, l1, l2 \in Locations :
         /\ r1 # r2
         /\ pre_data[r1][l1] # <<>> /\ pre_data[r2][l2] # <<>>
         /\ rom_data[r1][l1] = <<>> /\ rom_data[r2][l2] = <<>>
         /\ rom_paths[r1][l1] # "" /\ rom_paths[r2][l2] # ""

(***************************************************************************)
(* C19.  The slots whose catalog rows all carry the placeholder digest are *)
(* the nine of the list below, and after EMU_DetectRomsetsByHash on an     *)
(* empty table each of them has an empty path and no data, whatever the    *)
(* directory held.                                                         *)
(***************************************************************************)
PlaceholderOnly(r, l) ==
    /\ Mapped(r, l)
    /\ \A known \in CatalogRows : (known[2] = r /\ known[3] = l) => known[1] = ZeroDigest

PlaceholderSlots ==
    {<<ST, ROM2>>, <<CM300, ROM1>>, <<SCB55, ROM1>>, <<SCB55, ROM2>>, <<RLP3237, ROM1>>,
     <<RLP3237, ROM2>>, <<RLP3237, WAVEROM1>>, <<JV880, WAVEROM_CARD>>,
     <<JV880, WAVEROM_EXP>>}

C19_PlaceholderNeverMatches ==
    /\ {<<r, l>> \in Romsets \X Locations : PlaceholderOnly(r, l)} = PlaceholderSlots
    /\ (Returned("EMU_DetectRomsetsByHash") /\ FromEmptyTable) =>
         \A r \in Romsets, l \in Locations :
           PlaceholderOnly(r, l) => (rom_paths[r][l] = "" /\ rom_data[r][l] = <<>>)

\* files of known and of unknown digest were hashed, slots of ST and CM300
\* were assigned, and their placeholder slots stayed empty
C19_Witness ==
    /\ Returned("EMU_DetectRomsetsByHash")
    /\ FromEmptyTable
    /\ call.ret
    /\ \E p \in Listed : Hashable(p) /\ FileDigest(p) = "e3b0c442"
    /\ rom_paths[ST][ROM1] # ""
    /\ rom_paths[ST][ROM2] = ""
    /\ rom_paths[CM300][ROM1] = ""

(***************************************************************************)
(* C20.  ParseGain returns a result other than success for every argument  *)
(* that, once a trailing "db" is taken off, holds no digit, holds more     *)
(* than one '.', holds a sign after the first position, or holds a         *)
(* character that is no digit, '.', '+' or '-'.                            *)
(***************************************************************************)
WithoutDb(str) ==
    IF Len(str) >= 2 /\ SubSeq(str, Len(str) - 1, Len(str)) = <<"d", "b">>
      THEN SubSeq(str, 1, Len(str) - 2) ELSE str

DigitChars == {"0", "1", "2", "3", "4", "5", "6", "7", "8", "9"}

Occurrences(str, ch) == Cardinality({i \in DOMAIN str : str[i] = ch})

Malformed(number) ==
    \/ \A i \in DOMAIN number : number[i] \notin DigitChars
    \/ Occurrences(number, ".") > 1
    \/ \E i \in DOMAIN number : i > 1 /\ number[i] \in {"+", "-"}
    \/ \E i \in DOMAIN number : number[i] \notin DigitChars \cup {".", "+", "-"}

C20_MalformedGain ==
    (pg.called /\ Malformed(WithoutDb(pg.str))) => pg.ret # ParseGainSuccess

\* a sign and the suffix only: the scan lets it through and the conversion
\* refuses it, leaving the float of the caller as it was
C20_Witness ==
    /\ pg.called
    /\ pg.str = <<"+", "d", "b">>
    /\ pg.ret = "ParseFailed"
    /\ pg.out_gain = pg.gain_before

(***************************************************************************)
(* C21.  A well-formed argument without the suffix that denotes a number   *)
(* below zero is refused.  A well-formed argument with the suffix "db" of  *)
(* at most 38 characters before the suffix is accepted, whatever its sign, *)
(* and the scalar is not below zero; it is above zero when the number of   *)
(* decibels is above -903.  A well-formed argument with a leading '+'      *)
(* gives the result and the float of the same argument without the '+'.    *)
(***************************************************************************)
HasDb(str) == WithoutDb(str) # str

WellFormed(str) == ~Malformed(WithoutDb(str))

\* a '-' and a digit other than 0
BelowZero(number) ==
    /\ number # <<>>
    /\ number[1] = "-"
    /\ \E i \in DOMAIN number : number[i] \in DigitChars \ {"0"}

\* the digits before the decimal point, without the leading zeros
WholePart(number) ==
    LET upto == IF \E i \in DOMAIN number : number[i] = "."
                  THEN (CHOOSE i \in DOMAIN number : number[i] = ".") - 1
                  ELSE Len(number)
    IN StripLeadingZeros(SelectSeq(SubSeq(number, 1, upto),
                                   LAMBDA ch : ch \in DigitChars))

\* -903 decibels or less
VeryLowDb(number) ==
    number # <<>> /\ number[1] = "-" /\ AtLeast(WholePart(number), 903)

AboveZero(f) ==
    \/ f.kind \in {"pow10", "inf"}
    \/ f.kind = "dec" /\ ~f.neg /\ (f.int # <<>> \/ f.frac # <<>>)

NegativeScalarRefused ==
    (pg.called /\ ~HasDb(pg.str) /\ WellFormed(pg.str) /\ BelowZero(pg.str))
      => pg.ret # ParseGainSuccess

LeadingPlusIgnored ==
    (pg.called /\ pg.str # <<>> /\ pg.str[1] = "+" /\ WellFormed(pg.str))
      => LET res == ParseGain(Tail(pg.str), pg.gain_before)
         IN pg.ret = res.ret /\ pg.out_gain = res.out_gain

\* the statement of the claim: every well-formed number of decibels is
\* accepted and gives a scalar above zero
C21_SignsOfGain ==
    /\ NegativeScalarRefused
    /\ (pg.called /\ HasDb(pg.str) /\ WellFormed(pg.str))
         => (pg.ret = ParseGainSuccess /\ AboveZero(pg.out_gain))
    /\ LeadingPlusIgnored

C21_SignsOfGainInRange ==
    /\ NegativeScalarRefused
    /\ (pg.called /\ HasDb(pg.str) /\ WellFormed(pg.str)
        /\ Len(WithoutDb(pg.str)) <= 38)
         => /\ pg.ret = ParseGainSuccess
            /\ ~IsNegative(pg.out_gain)
            /\ ~VeryLowDb(WithoutDb(pg.str)) => AboveZero(pg.out_gain)
    /\ LeadingPlusIgnored

\* -6db: accepted, and the scalar is a power of ten
C21_Witness ==
    /\ pg.called
    /\ pg.str = <<"-", "6", "d", "b">>
    /\ pg.ret = ParseGainSuccess
    /\ pg.out_gain = Float("pow10", TRUE, <<"6">>, <<>>)
    /\ pg.out_gain # pg.gain_before

(***************************************************************************)
(* C22.  When LoadRomset is called without a name and detection succeeds,  *)
(* the romset resolved is the lowest romset that is complete in the table  *)
(* as detection left it, whatever the overrides, and the error is          *)
(* NoCompleteRomsets exactly when no romset is complete in that table,     *)
(* even when the overrides name every slot that is missing.  When it is    *)
(* called with a name, the error is never NoCompleteRomsets and the romset *)
(* resolved is the romset named.                                           *)
(***************************************************************************)
CompleteIn(paths, data, r) ==
    \A s \in Locations : Mandatory(r, s) => (paths[r][s] # "" \/ data[r][s] # <<>>)

CompleteAsDetected == {r \in Romsets : CompleteIn(lr.det_paths, lr.det_data, r)}

\* the romsets the overrides would make complete
CompleteWithOverrides ==
    {r \in Romsets :
       \A s \in Locations :
         Mandatory(r, s) =>
           (lr.overrides[s] # "" \/ lr.det_paths[r][s] # "" \/ lr.det_data[r][s] # <<>>)}

DetectionSucceeded == lr.stage \in {"pick", "complete", "load"}

C22_PickBeforeOverrides ==
    Returned("LoadRomset") =>
      /\ (lr.desired_romset = "" /\ DetectionSucceeded) =>
           /\ lr.error = "NoCompleteRomsets" <=> CompleteAsDetected = {}
           /\ lr.stage = "pick" <=> CompleteAsDetected = {}
           /\ CompleteAsDetected # {} =>
                /\ out_romset \in CompleteAsDetected
                /\ \A r \in CompleteAsDetected : out_romset <= r
      /\ lr.desired_romset # "" =>
           /\ lr.error # "NoCompleteRomsets"
           /\ lr.stage # "pick"
           /\ DetectionSucceeded => out_romset = RomsetNamed(lr.desired_romset)

\* no romset is complete as detected, the overrides would make one complete,
\* and the call ends with NoCompleteRomsets
C22_Witness ==
    /\ Returned("LoadRomset")
    /\ lr.desired_romset = ""
    /\ lr.error = "NoCompleteRomsets"
    /\ CompleteAsDetected = {}
    /\ CompleteWithOverrides # {}

(***************************************************************************)
(* C23.  When LoadRomset is called with the name of a romset and with hash *)
(* detection on an empty table, and detection succeeds, every slot that    *)
(* holds data in the table as detection left it is a slot of the romset    *)
(* named.                                                                  *)
(***************************************************************************)
NamedHashDetection ==
    /\ Returned("LoadRomset")
    /\ FromEmptyTable
    /\ IsRomsetName(lr.desired_romset)
    /\ ~lr.legacy_loader
    /\ DetectionSucceeded

C23_EagerDataOfNamedRomset ==
    NamedHashDetection =>
      \A r \in Romsets, s \in Locations :
        lr.det_data[r][s] # <<>> => r = RomsetNamed(lr.desired_romset)

\* what the filter does select: it is indexed by location, and the entry set
\* is the one at the ordinal of the romset named, so data is held only by
\* the slots at that location, in whatever romset
C23_EagerDataAtOrdinalOfRomset ==
    NamedHashDetection =>
      \A r \in Romsets, s \in Locations :
        lr.det_data[r][s] # <<>> => s = RomsetNamed(lr.desired_romset)

(***************************************************************************)
(* C24.  When LoadRomset is called without the name of a romset it never   *)
(* returns IncompleteRomset: every slot of the table that was present      *)
(* after detection is present after the overrides, so the romset the       *)
(* picker found complete is complete with the overrides applied.           *)
(***************************************************************************)
PresentIn(paths, data, r, s) == paths[r][s] # "" \/ data[r][s] # <<>>

C24_PickedStaysComplete ==
    (Returned("LoadRomset") /\ lr.desired_romset = "") =>
      /\ lr.error # "IncompleteRomset"
      /\ lr.stage # "complete"
      /\ OverridesApplied =>
           /\ \A r \in Romsets, s \in Locations :
                PresentIn(lr.det_paths, lr.det_data, r, s) =>
                  PresentIn(lr.ov_paths, lr.ov_data, r, s)
           /\ out_romset \in CompleteAsDetected
           /\ CompleteIn(lr.ov_paths, lr.ov_data, out_romset)

\* no name, and an override given for a mandatory slot of the romset picked
C24_Witness ==
    /\ Returned("LoadRomset")
    /\ lr.desired_romset = ""
    /\ lr.stage = "load"
    /\ \E s \in Locations :
         /\ Mandatory(out_romset, s)
         /\ lr.overrides[s] # ""
         /\ lr.det_paths[out_romset][s] # lr.overrides[s]
         /\ lr.ov_paths[out_romset][s] = lr.overrides[s]

(***************************************************************************)
(* C25.  Starting from an empty table, in every state that detection by    *)
(* hash or by file name, the overrides, EMU_LoadRomset and PurgeRomData    *)
(* leave, a slot that holds data has a path: in the table as detection     *)
(* left it, in the table with the overrides, and in the table as it is.    *)
(***************************************************************************)
NoDataOnlySlot(paths, data) ==
    \A r \in Romsets, s \in Locations : data[r][s] # <<>> => paths[r][s] # ""

C25_NoDataOnlySlot ==
    /\ NoDataOnlySlot(rom_paths, rom_data)
    /\ NoDataOnlySlot(lr.det_paths, lr.det_data)
    /\ NoDataOnlySlot(lr.ov_paths, lr.ov_data)

\* detection left data in a slot, an override took the data of another slot
\* away, and EMU_LoadRomset read that slot again
C25_Witness ==
    /\ Returned("LoadRomset")
    /\ lr.stage = "load"
    /\ \E r \in Romsets, s \in Locations : lr.det_data[r][s] # <<>>
    /\ \E s \in Locations :
         /\ lr.overrides[s] # ""
         /\ rom_data[out_romset][s] # <<>>
         /\ rom_paths[out_romset][s] = lr.overrides[s]

\* the data is gone after PurgeRomData and the paths stay
C25_WitnessPurged ==
    /\ Returned("PurgeRomData")
    /\ lr.stage = "load"
    /\ \E r \in Romsets, s \in Locations :
         pre_data[r][s] # <<>> /\ rom_data[r][s] = <<>> /\ rom_paths[r][s] # ""

(***************************************************************************)
(* C26.  For every file that EMU_LoadRomset reads for a wave slot,         *)
(* whatever its length, every source address that unscramble reads is      *)
(* smaller than the length of the buffer and is in the bank of the         *)
(* destination index.                                                      *)
(***************************************************************************)
\* the wave slots whose file this call of EMU_LoadRomset read
WaveReadByLoader == {l \in Locations : EMU_IsWaverom(l) /\ ReadByLoader(l)}

\* the length of the buffer EMU_ReadAllBytes filled for slot l
ReadLength(l) == Len(FileSystem[pre_paths[call.romset][l]].bytes)

C26_ReadsWithinFile ==
    Returned("EMU_LoadRomset") =>
      \A l \in WaveReadByLoader :
        \A i \in 0 .. (ReadLength(l) - 1) :
          /\ SrcAddress(i) < ReadLength(l)
          /\ BankOf(SrcAddress(i)) = BankOf(i)

\* the part that holds for every length: the address stays in the bank
C26_ReadsInSameBank ==
    Returned("EMU_LoadRomset") =>
      \A l \in WaveReadByLoader :
        \A i \in 0 .. (ReadLength(l) - 1) : BankOf(SrcAddress(i)) = BankOf(i)

\* a file of two bytes read for a wave slot: index 1 reads address 4
C26_ShortWaveRead ==
    /\ Returned("EMU_LoadRomset")
    /\ \E l \in WaveReadByLoader : ReadLength(l) = 2 /\ SrcAddress(1) = 4

(***************************************************************************)
(* C27.  When EMU_LoadRomset has marked a slot Loaded, the slot holds data *)
(* when the call returns, whatever the length of the file it read, a       *)
(* length of zero included.                                                *)
(***************************************************************************)
LoaderRan == Returned("LoadRomset") /\ lr.stage = "load"

C27_LoadedHasData ==
    LoaderRan =>
      \A s \in Locations :
        loaded[s] = "Loaded" => rom_data[out_romset][s] # <<>>

\* the file EMU_LoadRomset read for slot s of the romset has no bytes
ReadEmptyFile(s) ==
    /\ lr.ov_data[out_romset][s] = <<>>
    /\ CanRead(lr.ov_paths[out_romset][s])
    /\ FileSystem[lr.ov_paths[out_romset][s]].bytes = <<>>

\* what does hold: a slot marked Loaded is without data only when the file
\* read for it is empty
C27_LoadedHasDataOrEmptyFile ==
    LoaderRan =>
      \A s \in Locations :
        loaded[s] = "Loaded" => (rom_data[out_romset][s] # <<>> \/ ReadEmptyFile(s))

\* LoadRomset returns success with a slot marked Loaded that holds no data
C27_LoadedWithoutData ==
    /\ LoaderRan
    /\ lr.error = "NoError"
    /\ \E s \in Locations :
         loaded[s] = "Loaded" /\ ReadEmptyFile(s) /\ rom_data[out_romset][s] = <<>>

(***************************************************************************)
(* C28.  When LoadRomset returns success, every slot marked Loaded in      *)
(* loaded is marked Present in completion, and every slot marked Unused in *)
(* completion is marked Unused in loaded.                                  *)
(***************************************************************************)
LoadRomsetSucceeded == Returned("LoadRomset") /\ lr.error = "NoError"

C28_DiagnosticsAgree ==
    LoadRomsetSucceeded =>
      \A s \in Locations :
        /\ loaded[s] = "Loaded" => completion[s] = "Present"
        /\ completion[s] = "Unused" => loaded[s] = "Unused"

(***************************************************************************)
(* C28, as the code has it.  The two diagnostics agree on the slots the    *)
(* table of hashes lists for the romset resolved.  A slot the table does   *)
(* not list for that romset is Unused in completion, and in loaded it is   *)
(* Loaded when an override names it and Unused when none does.             *)
(***************************************************************************)
C28_DiagnosticsAgreeOnListedSlots ==
    LoadRomsetSucceeded =>
      \A s \in Locations :
        IF Mapped(out_romset, s)
        THEN /\ loaded[s] = "Loaded" => completion[s] = "Present"
             /\ completion[s] = "Unused" => loaded[s] = "Unused"
             /\ completion[s] # "Missing"
             /\ loaded[s] # "Failed"
        ELSE /\ completion[s] = "Unused"
             /\ loaded[s] = (IF lr.overrides[s] # "" THEN "Loaded" ELSE "Unused")

\* success with an override for a slot the romset does not use, beside
\* slots of the romset that are Present and Loaded
C28_Witness ==
    /\ LoadRomsetSucceeded
    /\ \E s \in Locations :
         /\ ~Mapped(out_romset, s)
         /\ lr.overrides[s] # ""
         /\ loaded[s] = "Loaded"
         /\ completion[s] = "Unused"
    /\ \E s \in Locations :
         Mapped(out_romset, s) /\ loaded[s] = "Loaded" /\ completion[s] = "Present"

(***************************************************************************)
(* C29.  After EMU_DetectRomsetsByHash has run without a filter on an      *)
(* empty table and returned true, romset MK2 is complete exactly when      *)
(* romset SC155MK2 is: both have the same path in every slot.  So          *)
(* EMU_PickCompleteRomset, run on that table, never returns SC155MK2.      *)
(***************************************************************************)
UnfilteredHashDetection ==
    /\ Returned("LoadRomset")
    /\ lr.desired_romset = ""
    /\ ~lr.legacy_loader
    /\ DetectionSucceeded

CompleteAfterDetection(r) ==
    EMU_IsCompleteRomset(lr.det_paths, lr.det_data, r, NullStatus).is_complete

C29_Sc155Mk2NeverPicked ==
    UnfilteredHashDetection =>
      /\ \A s \in Locations : lr.det_paths[MK2][s] = lr.det_paths[SC155MK2][s]
      /\ CompleteAfterDetection(MK2) <=> CompleteAfterDetection(SC155MK2)
      /\ EMU_PickCompleteRomset(lr.det_paths, lr.det_data, MK2).out_romset # SC155MK2
      /\ lr.stage # "pick" => out_romset # SC155MK2

\* the directory holds the dump both romsets share: both are complete and
\* the picker returns MK2
C29_Witness ==
    /\ UnfilteredHashDetection
    /\ CompleteAfterDetection(MK2)
    /\ CompleteAfterDetection(SC155MK2)
    /\ lr.stage # "pick"
    /\ out_romset = MK2

\* neither romset is complete and the picker finds another romset
C29_WitnessNeither ==
    /\ UnfilteredHashDetection
    /\ ~CompleteAfterDetection(MK2)
    /\ ~CompleteAfterDetection(SC155MK2)
    /\ lr.stage # "pick"

(***************************************************************************)
(* C30.  When LoadRomset is called with the detector by file name and      *)
(* without the name of a romset, every romset is complete after detection  *)
(* whatever the directory holds.  So the call resolves romset MK2, it      *)
(* returns neither NoCompleteRomsets nor DetectionFailed nor               *)
(* IncompleteRomset, and it returns RomLoadFailed exactly when a file of   *)
(* MK2 cannot be read.                                                     *)
(***************************************************************************)
LegacyUnnamed ==
    /\ Returned("LoadRomset")
    /\ lr.desired_romset = ""
    /\ lr.legacy_loader

C30_LegacyResolvesMk2 ==
    LegacyUnnamed =>
      /\ \A r \in Romsets : CompleteAfterDetection(r)
      /\ out_romset = MK2
      /\ lr.stage = "load"
      /\ lr.error \in {"NoError", "RomLoadFailed"}
      /\ lr.error = "RomLoadFailed" <=>
           \E s \in Locations :
             lr.ov_paths[MK2][s] # "" /\ ~CanRead(lr.ov_paths[MK2][s])
      /\ \A s \in Locations :
           (lr.ov_paths[MK2][s] # "" /\ ~CanRead(lr.ov_paths[MK2][s])) =>
             (loaded[s] = "Failed" /\ completion[s] = "Present")

\* the directory listing holds none of the names of MK2: MK2 is resolved all
\* the same and rom_sm.bin, which cannot be read, is reported by the loader
C30_Witness ==
    /\ LegacyUnnamed
    /\ call.dir.exists
    /\ \A k \in 1 .. Len(call.dir.listing) :
         \A s \in Locations : call.dir.listing[k] # lr.det_paths[MK2][s]
    /\ out_romset = MK2
    /\ lr.error = "RomLoadFailed"
    /\ lr.ov_paths[MK2][SMROM] = "roms/rom_sm.bin"
    /\ ~CanRead("roms/rom_sm.bin")
    /\ loaded[SMROM] = "Failed"

\* every file of MK2 can be read, the overrides standing in for rom2.bin and
\* rom_sm.bin: the call succeeds
C30_WitnessLoaded ==
    /\ LegacyUnnamed
    /\ out_romset = MK2
    /\ lr.error = "NoError"
    /\ lr.ov_paths[MK2][ROM1] = "roms/rom1.bin"
    /\ lr.ov_paths[MK2][ROM2] = "user/patch.bin"
    /\ loaded[ROM1] = "Loaded"
    /\ loaded[ROM2] = "Loaded"

====
